---- MODULE Spec2Model ----
(***************************************************************************)
(* Model of backend/cache.py: the process-wide Redis handle (get_redis,    *)
(* close_redis), CacheService (get, set, delete, delete_pattern and the    *)
(* domain helpers built on them) and PubSubService (publish, notify).      *)
(*                                                                         *)
(* Scheduling is asyncio's: a coroutine runs without interruption from one *)
(* await that suspends to the next.  get_redis contains no await, so its   *)
(* test and assignment are one step.  Every command sent to the server     *)
(* (GET, SETEX, DEL, SCAN, PUBLISH) and redis_pool.close() is a suspension *)
(* point; the server executes one command atomically.                      *)
(***************************************************************************)
EXTENDS Integers, Sequences, FiniteSets, TLC

(***************************************************************************)
(* Strings are sequences of one-character strings, so that prefixes, key   *)
(* formatting and glob matching are computed, not assumed.                 *)
(***************************************************************************)
PREFIX_PRODUCTS == <<"p","r","o","d","u","c","t","s",":">>

PREFIX_CATEGORIES == <<"c","a","t","e","g","o","r","i","e","s",":">>

PREFIX_CAR_BRANDS == <<"c","a","r","_","b","r","a","n","d","s",":">>

PREFIX_CAR_MODELS == <<"c","a","r","_","m","o","d","e","l","s",":">>

PREFIX_PRODUCT_BRANDS == <<"p","r","o","d","u","c","t","_","b","r","a","n","d","s",":">>

PREFIX_SYNC == <<"s","y","n","c",":">>

SHORT_TTL == 60

MEDIUM_TTL == 300

LONG_TTL == 3600

CHANNEL_PRODUCTS == <<"c","h","a","n","n","e","l",":","p","r","o","d","u","c","t","s">>

CHANNEL_ORDERS == <<"c","h","a","n","n","e","l",":","o","r","d","e","r","s">>

CHANNEL_SYNC == <<"c","h","a","n","n","e","l",":","s","y","n","c">>

(***************************************************************************)
(* Redis glob matching, for the patterns the code passes to SCAN MATCH:    *)
(* literal characters and the wildcard *.                                  *)
(***************************************************************************)
RECURSIVE GlobMatch(_, _)
GlobMatch(pattern, s) ==
    IF pattern = <<>> THEN s = <<>>
    ELSE IF Head(pattern) = "*"
         THEN GlobMatch(Tail(pattern), s)
              \/ (s # <<>> /\ GlobMatch(pattern, Tail(s)))
         ELSE s # <<>> /\ Head(s) = Head(pattern)
              /\ GlobMatch(Tail(pattern), Tail(s))

\* f"{prefix}*", the pattern every invalidate_* helper builds.
PrefixPattern(prefix) == prefix \o <<"*">>

StartsWith(s, prefix) ==
    Len(s) >= Len(prefix) /\ SubSeq(s, 1, Len(prefix)) = prefix

(***************************************************************************)
(* Python values, as <<type, payload>>.  list, tuple: the payload is the   *)
(* sequence of items.  dict: the sequence of <<key, value>> pairs in       *)
(* insertion order.  obj stands for a value json has no encoding for (a    *)
(* datetime, an ObjectId); its payload is the text str() gives for it.     *)
(***************************************************************************)
PyNone == <<"none", 0>>

PyBool(b) == <<"bool", b>>

PyInt(n) == <<"int", n>>

PyStr(s) == <<"str", s>>

PyList(items) == <<"list", items>>

PyTuple(items) == <<"tuple", items>>

PyDict(pairs) == <<"dict", pairs>>

PyObj(text) == <<"obj", text>>

\* The decimal text of a small non-negative integer, as str(n) gives it.
Digits == <<"0","1","2","3","4","5","6","7","8","9">>

RECURSIVE Decimal(_)
Decimal(n) ==
    IF n < 10 THEN <<Digits[n + 1]>>
    ELSE Decimal(n \div 10) \o <<Digits[(n % 10) + 1]>>

(***************************************************************************)
(* JSON text, as a sequence of tokens <<kind, payload>>.                   *)
(***************************************************************************)
Punct(c) == <<"punct", c>>

Lit(w) == <<"lit", w>>

Num(n) == <<"num", n>>

Quoted(s) == <<"str", s>>

RECURSIVE Join(_, _)
\* parts: a sequence of token sequences, joined by the token sep.
Join(parts, sep) ==
    IF parts = <<>> THEN <<>>
    ELSE IF Len(parts) = 1 THEN parts[1]
    ELSE parts[1] \o <<sep>> \o Join(Tail(parts), sep)

\* json.dumps turns a dict key that is an int into its decimal text.
DumpsKey(key) ==
    IF key[1] = "int" THEN Quoted(Decimal(key[2])) ELSE Quoted(key[2])

RECURSIVE Dumps(_)
\* json.dumps(value, default=str)
Dumps(value) ==
    CASE value[1] = "none" -> <<Lit("null")>>
      [] value[1] = "bool" -> <<Lit(IF value[2] THEN "true" ELSE "false")>>
      [] value[1] = "int" -> <<Num(value[2])>>
      [] value[1] = "str" -> <<Quoted(value[2])>>
      [] value[1] \in {"list", "tuple"} ->
            <<Punct("[")>>
            \o Join([i \in 1..Len(value[2]) |-> Dumps(value[2][i])], Punct(","))
            \o <<Punct("]")>>
      [] value[1] = "dict" ->
            <<Punct("{")>>
            \o Join([i \in 1..Len(value[2]) |->
                        <<DumpsKey(value[2][i][1]), Punct(":")>>
                        \o Dumps(value[2][i][2])], Punct(","))
            \o <<Punct("}")>>
      [] value[1] = "obj" -> <<Quoted(value[2])>>

RECURSIVE DumpsRaises(_)
\* json.dumps raises TypeError on a dict key that is not str, int, float,
\* bool or None (default= is not applied to keys).
DumpsRaises(value) ==
    CASE value[1] \in {"list", "tuple"} ->
            \E i \in 1..Len(value[2]) : DumpsRaises(value[2][i])
      [] value[1] = "dict" ->
            \E i \in 1..Len(value[2]) :
                value[2][i][1][1] \notin {"str", "int"} \/ DumpsRaises(value[2][i][2])
      [] OTHER -> FALSE

\* What json.loads gives for text that is not one JSON document.
JSONDecodeError == <<"JSONDecodeError", 0>>

ParseFail == [ok |-> FALSE, val |-> PyNone, next |-> 0]

RECURSIVE ParseValue(_, _)
RECURSIVE ParseItems(_, _, _)
RECURSIVE ParseMembers(_, _, _)
\* Parses one JSON value of text s starting at token i: [ok, val, next].
ParseValue(s, i) ==
    IF i > Len(s) THEN ParseFail
    ELSE LET tok == s[i] IN
         CASE tok[1] = "lit" ->
                [ok |-> TRUE,
                 val |-> IF tok[2] = "null" THEN PyNone ELSE PyBool(tok[2] = "true"),
                 next |-> i + 1]
           [] tok[1] = "num" -> [ok |-> TRUE, val |-> PyInt(tok[2]), next |-> i + 1]
           [] tok[1] = "str" -> [ok |-> TRUE, val |-> PyStr(tok[2]), next |-> i + 1]
           [] tok[1] = "punct" ->
                IF tok[2] = "[" THEN
                    IF i + 1 <= Len(s) /\ s[i + 1] = Punct("]")
                    THEN [ok |-> TRUE, val |-> PyList(<<>>), next |-> i + 2]
                    ELSE ParseItems(s, i + 1, <<>>)
                ELSE IF tok[2] = "{" THEN
                    IF i + 1 <= Len(s) /\ s[i + 1] = Punct("}")
                    THEN [ok |-> TRUE, val |-> PyDict(<<>>), next |-> i + 2]
                    ELSE ParseMembers(s, i + 1, <<>>)
                ELSE ParseFail

\* The items of an array after "[" or ",", up to and including "]".
ParseItems(s, i, acc) ==
    LET item == ParseValue(s, i) IN
    IF ~item.ok \/ item.next > Len(s) THEN ParseFail
    ELSE IF s[item.next] = Punct(",")
         THEN ParseItems(s, item.next + 1, Append(acc, item.val))
    ELSE IF s[item.next] = Punct("]")
         THEN [ok |-> TRUE, val |-> PyList(Append(acc, item.val)),
               next |-> item.next + 1]
    ELSE ParseFail

\* The members of an object after "{" or ",", up to and including "}".
ParseMembers(s, i, acc) ==
    IF i + 1 > Len(s) \/ s[i][1] # "str" \/ s[i + 1] # Punct(":") THEN ParseFail
    ELSE LET member == ParseValue(s, i + 2) IN
         IF ~member.ok \/ member.next > Len(s) THEN ParseFail
         ELSE IF s[member.next] = Punct(",")
              THEN ParseMembers(s, member.next + 1,
                                Append(acc, <<PyStr(s[i][2]), member.val>>))
         ELSE IF s[member.next] = Punct("}")
              THEN [ok |-> TRUE,
                    val |-> PyDict(Append(acc, <<PyStr(s[i][2]), member.val>>)),
                    next |-> member.next + 1]
         ELSE ParseFail

\* json.loads(text): the value, or JSONDecodeError.
Loads(text) ==
    LET p == ParseValue(text, 1) IN
    IF p.ok /\ p.next = Len(text) + 1 THEN p.val ELSE JSONDecodeError

\* Python truth value: None, False, 0 and empty containers are false.
Truthy(value) ==
    CASE value[1] = "none" -> FALSE
      [] value[1] = "bool" -> value[2]
      [] value[1] = "int" -> value[2] # 0
      [] value[1] \in {"str", "list", "tuple", "dict"} -> Len(value[2]) > 0
      [] OTHER -> TRUE

\* Python's `a or b`.
PyOr(a, b) == IF Truthy(a) THEN a ELSE b

(***************************************************************************)
(* Bounds of the model.                                                    *)
(***************************************************************************)
\* Concurrent request-handling tasks.
NumTasks == 2

\* Connections the process may construct in one run.
MaxConns == 2

\* Steps by which the clock may advance in one run.
MaxAdvance == 2

\* Messages a subscriber's inbox holds in one run.
MaxInbox == 1

\* Calls of close() one connection takes in one run.
MaxCloses == 2

\* Keys the server of Spec has memory for (its maxmemory, policy noeviction).
MaxEntries == 1

Tasks == 1..NumTasks

\* The exceptions the modelled code can meet; Exception is a base class of each.
ExceptionKinds ==
    {"ValueError", "ConnectionError", "ResponseError", "TypeError", "JSONDecodeError"}

NoFault == "none"

(***************************************************************************)
(* The keys, values and channels of the model.                             *)
(***************************************************************************)
KeyOf(prefix, suffix) == prefix \o suffix

SUFFIX_ALL == <<"a","l","l">>

SUFFIX_TREE == <<"t","r","e","e">>

SUFFIX_TIMESTAMP == <<"t","i","m","e","s","t","a","m","p",":">>

ProductIds == {<<"1">>, <<"2">>}

TableNames == {<<"o","r","d","e","r","s">>, <<"u","s","e","r","s">>}

K_products_all == KeyOf(PREFIX_PRODUCTS, SUFFIX_ALL)

K_product(product_id) == KeyOf(PREFIX_PRODUCTS, product_id)

K_categories_tree == KeyOf(PREFIX_CATEGORIES, SUFFIX_TREE)

\* A key under the categories prefix that no helper of CacheService names.
K_categories_all == KeyOf(PREFIX_CATEGORIES, SUFFIX_ALL)

K_car_brands_all == KeyOf(PREFIX_CAR_BRANDS, SUFFIX_ALL)

K_car_models_all == KeyOf(PREFIX_CAR_MODELS, SUFFIX_ALL)

K_product_brands_all == KeyOf(PREFIX_PRODUCT_BRANDS, SUFFIX_ALL)

K_sync_timestamp(table) == KeyOf(PREFIX_SYNC, SUFFIX_TIMESTAMP \o table)

\* The order in which SCAN walks the key space (one slot per key).
ScanOrder ==
    <<K_product(<<"1">>), K_categories_tree, K_products_all, K_product_brands_all,
      K_car_brands_all, K_product(<<"2">>), K_car_models_all,
      K_sync_timestamp(<<"o","r","d","e","r","s">>),
      K_sync_timestamp(<<"u","s","e","r","s">>), K_categories_all>>

\* The server's table has one slot per key of the model.
Slots == 1..Len(ScanOrder)

AllKeys == {ScanOrder[i] : i \in Slots}

Slot(key) == CHOOSE i \in Slots : ScanOrder[i] = key

\* What a table (the key space, or the record of SETEXs) holds for a key.
Entry(table, key) == table[Slot(key)]

Prefixes ==
    {PREFIX_PRODUCTS, PREFIX_CATEGORIES, PREFIX_CAR_BRANDS, PREFIX_CAR_MODELS,
     PREFIX_PRODUCT_BRANDS}

Channels == {CHANNEL_PRODUCTS, CHANNEL_ORDERS, CHANNEL_SYNC}

Subscribers == {"s1", "s2"}

NoEntry == [present |-> FALSE, data |-> <<>>, ttl |-> 0]

NoSet == [done |-> FALSE, value |-> PyNone, given |-> PyNone, age |-> 0,
          intact |-> FALSE]

VARIABLES
    redis_pool,     \* the module global: 0 for None, else the connection's number
    constructed,    \* connections redis.from_url has returned so far
    closeCalls,     \* connection -> times close() was called on it
    closedConns,    \* connections whose close() has completed
    reachable,      \* whether the server answers commands
    capacity,       \* keys the server has memory for
    store,          \* the server's key space: slot -> [present, data, ttl]
    lastSet,        \* slot -> the last SETEX executed for its key and not deleted since:
                    \* the value and ttl set() was given, the seconds since, and
                    \* whether the entry is still as SETEX wrote it
    advances,       \* clock steps taken
    subscribed,     \* subscriber -> channels it is subscribed to
    inbox,          \* subscriber -> messages delivered to it
    pc,             \* task -> "idle", "scan", "del" or "closing"
    op,             \* task -> the entry point it is in, or last returned from
    r,              \* task -> the handle get_redis gave it
    pattern,        \* task -> delete_pattern's argument
    keys,           \* task -> delete_pattern's list of enumerated keys
    cursor,         \* task -> slots of ScanOrder its scan has passed
    ret,            \* task -> the value the entry point returned
    raised,         \* task -> the exception the entry point raised, or NoFault
    logged,         \* task -> the exception its entry point logged, or NoFault
    primary,        \* the product list the application's primary store holds
    fetched         \* task -> the product list it last read from the primary store

connVars == <<redis_pool, constructed, closeCalls, closedConns>>

serverVars == <<reachable, capacity, store, lastSet, advances, subscribed, inbox>>

taskVars == <<pc, op, r, pattern, keys, cursor, ret, raised, logged>>

appVars == <<primary, fetched>>

vars == <<redis_pool, constructed, closeCalls, closedConns, reachable, capacity, store,
          lastSet, advances, subscribed, inbox, pc, op, r, pattern, keys, cursor,
          ret, raised, logged, primary, fetched>>

InitWith(memory) ==
    /\ capacity = memory
    /\ redis_pool = 0
    /\ constructed = 0
    /\ closeCalls = [c \in 1..MaxConns |-> 0]
    /\ closedConns = {}
    /\ reachable = TRUE
    /\ store = [i \in Slots |-> NoEntry]
    /\ lastSet = [i \in Slots |-> NoSet]
    /\ advances = 0
    /\ subscribed = [s \in Subscribers |-> {}]
    /\ inbox = [s \in Subscribers |-> <<>>]
    /\ pc = [t \in Tasks |-> "idle"]
    /\ op = [t \in Tasks |-> "none"]
    /\ r = [t \in Tasks |-> 0]
    /\ pattern = [t \in Tasks |-> <<>>]
    /\ keys = [t \in Tasks |-> <<>>]
    /\ cursor = [t \in Tasks |-> 0]
    /\ ret = [t \in Tasks |-> PyNone]
    /\ raised = [t \in Tasks |-> NoFault]
    /\ logged = [t \in Tasks |-> NoFault]
    /\ primary = PyList(<<>>)
    /\ fetched = [t \in Tasks |-> PyNone]

Init == InitWith(MaxEntries)

\* A server with memory for every key of the model.
InitRoomy == InitWith(Len(ScanOrder))

(***************************************************************************)
(* get_redis and close_redis.                                              *)
(***************************************************************************)
\* get_redis without its test: it constructs a connection at every call.
NeedsConstructAlways(pool) == TRUE

\* if redis_pool is None:
NeedsConstruct(pool) == pool = 0

\* get_redis that stores a handle in redis_pool before from_url has returned.
GetRedisAssignsFirst(pool, n, from_url_fails) ==
    IF NeedsConstruct(pool)
    THEN IF from_url_fails
         THEN [exc |-> "ValueError", r |-> 0, pool |-> n + 1, constructed |-> n + 1]
         ELSE [exc |-> NoFault, r |-> n + 1, pool |-> n + 1, constructed |-> n + 1]
    ELSE [exc |-> NoFault, r |-> pool, pool |-> pool, constructed |-> n]

\* get_redis(): [exc, r, pool, constructed], the exception it raises or the
\* handle it returns, and the global and the count of connections after it.
\* from_url_fails: redis.from_url raises (REDIS_URL is not a valid URL).
GetRedis(pool, n, from_url_fails) ==
    IF NeedsConstruct(pool)
    THEN IF from_url_fails
         THEN [exc |-> "ValueError", r |-> 0, pool |-> pool, constructed |-> n]
         ELSE [exc |-> NoFault, r |-> n + 1, pool |-> n + 1, constructed |-> n + 1]
    ELSE [exc |-> NoFault, r |-> pool, pool |-> pool, constructed |-> n]

\* The outcomes of redis.from_url that matter to a call of get_redis.
FromUrlFails == IF NeedsConstruct(redis_pool) THEN BOOLEAN ELSE {FALSE}

\* if redis_pool:
HasPool(pool) == pool # 0

\* The entry points without their try blocks.
ExceptNothing(kind) == FALSE

\* The clause `except Exception as e` of get, set, delete, delete_pattern and
\* publish: the exceptions it catches.
ExceptException(kind) == kind \in ExceptionKinds

\* Entry points that catch redis.RedisError only.
EscapesRedisErrorOnly(kind) ==
    IF kind \in {NoFault, "ConnectionError", "ResponseError"} THEN NoFault ELSE kind

\* What a try block's exception is to the caller of the entry point.
Escapes(kind) ==
    IF kind # NoFault /\ ~ExceptException(kind) THEN kind ELSE NoFault

\* Helpers that all return what the call they await returns.
ReturnsResultAlways(entry) == TRUE

\* The entry points whose body returns its result; the others (invalidate_*,
\* set_all_*, set_product, set_categories_tree, set_last_sync_timestamp,
\* publish, notify_*) await the call and return None.
ReturnsResult(entry) ==
    entry \in {"get", "set", "delete", "delete_pattern", "get_all_products",
               "get_product", "get_categories_tree", "get_all_car_brands",
               "get_all_car_models", "get_all_product_brands",
               "get_last_sync_timestamp"}

Returned(entry, value) == IF ReturnsResult(entry) THEN value ELSE PyNone

(***************************************************************************)
(* The bodies of the CacheService primitives, as functions of the handle   *)
(* get_redis gave (acq), of whether the server answers (up) and of the     *)
(* server's state: the value returned and the exception met in the try.    *)
(***************************************************************************)
\* await r.get(key) with decode_responses=True: None or the stored text.
RedisGet(entry) == IF entry.present THEN PyStr(entry.data) ELSE PyNone

\* CacheService.get returning the stored text itself, without json.loads.
GetTryNoLoads(acq, up, entry) ==
    IF acq.exc # NoFault THEN [ret |-> PyNone, exc |-> acq.exc]
    ELSE IF ~up THEN [ret |-> PyNone, exc |-> "ConnectionError"]
    ELSE [ret |-> RedisGet(entry), exc |-> NoFault]

\* CacheService.get
GetTry(acq, up, entry) ==
    IF acq.exc # NoFault THEN [ret |-> PyNone, exc |-> acq.exc]
    ELSE IF ~up THEN [ret |-> PyNone, exc |-> "ConnectionError"]
    ELSE LET value == RedisGet(entry) IN
         IF Truthy(value)
         THEN LET loaded == Loads(value[2]) IN
              IF loaded = JSONDecodeError
              THEN [ret |-> PyNone, exc |-> "JSONDecodeError"]
              ELSE [ret |-> loaded, exc |-> NoFault]
         ELSE [ret |-> PyNone, exc |-> NoFault]

\* set ignoring the ttl it is given.
SetTtlLong(ttl) == PyInt(LONG_TTL)

\* ttl = ttl or CacheService.MEDIUM_TTL
SetTtl(ttl) == PyOr(ttl, PyInt(MEDIUM_TTL))

\* Whether the server is out of memory for a key it does not hold yet.
OutOfMemory(st, memory, key) ==
    ~Entry(st, key).present /\ Cardinality({i \in Slots : st[i].present}) >= memory

\* CacheService.set: also whether SETEX was executed, and with what.  full: the
\* server refuses the write (OOM command not allowed).
SetTry(acq, up, full, value, ttl) ==
    LET failed(kind) == [ret |-> PyBool(FALSE), exc |-> kind, write |-> FALSE,
                         data |-> <<>>, ttl |-> 0]
    IN IF acq.exc # NoFault THEN failed(acq.exc)
       ELSE IF DumpsRaises(value) THEN failed("TypeError")
       ELSE IF ~up THEN failed("ConnectionError")
       ELSE IF SetTtl(ttl)[2] <= 0 \/ full THEN failed("ResponseError")
       ELSE [ret |-> PyBool(TRUE), exc |-> NoFault, write |-> TRUE,
             data |-> Dumps(value), ttl |-> SetTtl(ttl)[2]]

\* CacheService.delete: also whether DEL was executed.
DeleteTry(acq, up) ==
    IF acq.exc # NoFault THEN [ret |-> PyBool(FALSE), exc |-> acq.exc, del |-> FALSE]
    ELSE IF ~up THEN [ret |-> PyBool(FALSE), exc |-> "ConnectionError", del |-> FALSE]
    ELSE [ret |-> PyBool(TRUE), exc |-> NoFault, del |-> TRUE]

\* A scan without match=pattern: every key among the n slots after slot `from`.
ScanBatchAny(st, pat, from, n) ==
    SelectSeq(SubSeq(ScanOrder, from + 1, from + n), LAMBDA k : Entry(st, k).present)

\* One SCAN call of r.scan_iter(match=pattern): the matching keys among the n
\* slots after slot `from`, as the server holds them when it executes the call.
ScanBatch(st, pat, from, n) ==
    SelectSeq(SubSeq(ScanOrder, from + 1, from + n),
              LAMBDA k : Entry(st, k).present /\ GlobMatch(pat, k))

\* A delete that removes every key under the prefix of an enumerated key,
\* enumerated or not.
DelTargetsByPrefix(ks, st) ==
    {k \in AllKeys : Entry(st, k).present
                      /\ \E i \in 1..Len(ks) : SubSeq(ks[i], 1, 9) = SubSeq(k, 1, 9)}

\* r.delete(*keys): the keys DEL removes, those of its arguments that exist.
DelTargets(ks, st) ==
    {k \in AllKeys : Entry(st, k).present /\ \E i \in 1..Len(ks) : ks[i] = k}

\* delete_pattern returning len(keys).
DelCountEnumerated(ks, st) == Len(ks)

\* The number r.delete(*keys) returns: the keys it removed.
DelCount(ks, st) == Cardinality(DelTargets(ks, st))

\* A publish that sends again until the server has taken the message.
PublishTryAgain(acq, up, message) ==
    IF acq.exc # NoFault THEN [exc |-> acq.exc, sent |-> FALSE, data |-> <<>>]
    ELSE IF DumpsRaises(message) THEN [exc |-> "TypeError", sent |-> FALSE, data |-> <<>>]
    ELSE [exc |-> NoFault, sent |-> TRUE, data |-> Dumps(message)]

\* PubSubService.publish: whether PUBLISH was executed, and with what.
PublishTry(acq, up, message) ==
    IF acq.exc # NoFault THEN [exc |-> acq.exc, sent |-> FALSE, data |-> <<>>]
    ELSE IF DumpsRaises(message) THEN [exc |-> "TypeError", sent |-> FALSE, data |-> <<>>]
    ELSE IF ~up THEN [exc |-> "ConnectionError", sent |-> FALSE, data |-> <<>>]
    ELSE [exc |-> NoFault, sent |-> TRUE, data |-> Dumps(message)]

(***************************************************************************)
(* Actions.  A task that is idle calls an entry point; an entry point that *)
(* sends one command is one step (its get_redis, the command as the server *)
(* executes it, and its return); delete_pattern and close_redis take one   *)
(* step per command or awaited call.                                       *)
(***************************************************************************)
\* How an entry point built on a try block ends for task t: it returns `value`,
\* or the except clause logs the exception exc and returns `value`.
Return(t, entry, value, exc) ==
    /\ ret' = [ret EXCEPT ![t] = IF Escapes(exc) = NoFault
                                 THEN Returned(entry, value) ELSE PyNone]
    /\ raised' = [raised EXCEPT ![t] = Escapes(exc)]
    /\ logged' = [logged EXCEPT ![t] = IF Escapes(exc) = NoFault THEN exc ELSE NoFault]

\* An entry point whose except clause also resets the shared handle.
FinishResets(t, entry, acq, value, exc) ==
    /\ acq.constructed <= MaxConns
    /\ redis_pool' = IF exc = NoFault THEN acq.pool ELSE 0
    /\ constructed' = acq.constructed
    /\ r' = [r EXCEPT ![t] = acq.r]
    /\ op' = [op EXCEPT ![t] = entry]
    /\ Return(t, entry, value, exc)

\* The part the one-command entry points share: r = await get_redis(), the
\* command, the return.
Finish(t, entry, acq, value, exc) ==
    /\ acq.constructed <= MaxConns
    /\ redis_pool' = acq.pool
    /\ constructed' = acq.constructed
    /\ r' = [r EXCEPT ![t] = acq.r]
    /\ op' = [op EXCEPT ![t] = entry]
    /\ Return(t, entry, value, exc)

\* await get_redis(), called by the application itself: no try block around it.
get_redis(t, from_url_fails) ==
    /\ pc[t] = "idle"
    /\ LET acq == GetRedis(redis_pool, constructed, from_url_fails) IN
        /\ acq.constructed <= MaxConns
        /\ redis_pool' = acq.pool
        /\ constructed' = acq.constructed
        /\ r' = [r EXCEPT ![t] = acq.r]
        /\ raised' = [raised EXCEPT ![t] = acq.exc]
    /\ op' = [op EXCEPT ![t] = "get_redis"]
    /\ ret' = [ret EXCEPT ![t] = PyNone]
    /\ logged' = [logged EXCEPT ![t] = NoFault]
    /\ UNCHANGED <<closeCalls, closedConns, serverVars, pc, pattern, keys, cursor>>
    /\ UNCHANGED appVars

\* close_redis without its test: with no connection held, the call of close()
\* on None raises AttributeError to the caller.
CloseBeginUntested(t) ==
    /\ pc[t] = "idle"
    /\ op' = [op EXCEPT ![t] = "close_redis"]
    /\ ret' = [ret EXCEPT ![t] = PyNone]
    /\ logged' = [logged EXCEPT ![t] = NoFault]
    /\ IF redis_pool # 0
       THEN /\ closeCalls[redis_pool] < MaxCloses
            /\ closeCalls' = [closeCalls EXCEPT ![redis_pool] = @ + 1]
            /\ r' = [r EXCEPT ![t] = redis_pool]
            /\ pc' = [pc EXCEPT ![t] = "closing"]
            /\ raised' = [raised EXCEPT ![t] = NoFault]
       ELSE /\ raised' = [raised EXCEPT ![t] = "AttributeError"]
            /\ UNCHANGED <<closeCalls, r, pc>>
    /\ UNCHANGED <<redis_pool, constructed, closedConns, serverVars, pattern, keys, cursor>>
    /\ UNCHANGED appVars

\* close_redis up to its await: the test of redis_pool and the call of close().
CloseBegin(t) ==
    /\ pc[t] = "idle"
    /\ op' = [op EXCEPT ![t] = "close_redis"]
    /\ ret' = [ret EXCEPT ![t] = PyNone]
    /\ raised' = [raised EXCEPT ![t] = NoFault]
    /\ logged' = [logged EXCEPT ![t] = NoFault]
    /\ IF HasPool(redis_pool)
       THEN /\ closeCalls[redis_pool] < MaxCloses
            /\ closeCalls' = [closeCalls EXCEPT ![redis_pool] = @ + 1]
            /\ r' = [r EXCEPT ![t] = redis_pool]
            /\ pc' = [pc EXCEPT ![t] = "closing"]
       ELSE UNCHANGED <<closeCalls, r, pc>>
    /\ UNCHANGED <<redis_pool, constructed, closedConns, serverVars, pattern, keys, cursor>>
    /\ UNCHANGED appVars

\* close_redis with `redis_pool = None` in a finally clause.
CloseEndFinally(t, close_fails) ==
    /\ pc[t] = "closing"
    /\ pc' = [pc EXCEPT ![t] = "idle"]
    /\ redis_pool' = 0
    /\ IF close_fails
       THEN /\ raised' = [raised EXCEPT ![t] = "ConnectionError"]
            /\ UNCHANGED closedConns
       ELSE /\ closedConns' = closedConns \cup {r[t]}
            /\ UNCHANGED raised
    /\ UNCHANGED <<constructed, closeCalls, serverVars, op, r, pattern, keys, cursor,
                   ret, logged>>
    /\ UNCHANGED appVars

\* close_redis without its last line: the closed connection stays shared.
CloseEndKeepsPool(t, close_fails) ==
    /\ pc[t] = "closing"
    /\ pc' = [pc EXCEPT ![t] = "idle"]
    /\ IF close_fails
       THEN /\ raised' = [raised EXCEPT ![t] = "ConnectionError"]
            /\ UNCHANGED closedConns
       ELSE /\ closedConns' = closedConns \cup {r[t]}
            /\ UNCHANGED raised
    /\ UNCHANGED <<redis_pool, constructed, closeCalls, serverVars, op, r, pattern, keys,
                   cursor, ret, logged>>
    /\ UNCHANGED appVars

\* close_redis from the return of close(): redis_pool = None, or the exception
\* close() raised, which close_redis does not catch.
CloseEnd(t, close_fails) ==
    /\ pc[t] = "closing"
    /\ pc' = [pc EXCEPT ![t] = "idle"]
    /\ IF close_fails
       THEN /\ raised' = [raised EXCEPT ![t] = "ConnectionError"]
            /\ UNCHANGED <<redis_pool, closedConns>>
       ELSE /\ closedConns' = closedConns \cup {r[t]}
            /\ redis_pool' = 0
            /\ UNCHANGED raised
    /\ UNCHANGED <<constructed, closeCalls, serverVars, op, r, pattern, keys, cursor,
                   ret, logged>>
    /\ UNCHANGED appVars

\* CacheService.get(key), also as called by the get_* helpers.
Get(t, entry, key, from_url_fails) ==
    /\ pc[t] = "idle"
    /\ LET acq == GetRedis(redis_pool, constructed, from_url_fails)
           res == GetTry(acq, reachable, Entry(store, key))
       IN Finish(t, entry, acq, res.ret, res.exc)
    /\ UNCHANGED <<closeCalls, closedConns, serverVars, pc, pattern, keys, cursor>>
    /\ UNCHANGED appVars

\* CacheService.set(key, value, ttl), also as called by the set_* helpers.
Set(t, entry, key, value, ttl, from_url_fails) ==
    /\ pc[t] = "idle"
    /\ LET acq == GetRedis(redis_pool, constructed, from_url_fails)
           res == SetTry(acq, reachable, OutOfMemory(store, capacity, key), value, ttl)
       IN /\ Finish(t, entry, acq, res.ret, res.exc)
          /\ IF res.write
             THEN /\ store' = [store EXCEPT ![Slot(key)] =
                                  [present |-> TRUE, data |-> res.data, ttl |-> res.ttl]]
                  /\ lastSet' = [lastSet EXCEPT ![Slot(key)] =
                                  [done |-> TRUE, value |-> value, given |-> ttl,
                                   age |-> 0, intact |-> TRUE]]
             ELSE UNCHANGED <<store, lastSet>>
    /\ UNCHANGED <<closeCalls, closedConns, reachable, capacity, advances, subscribed, inbox,
                   pc, pattern, keys, cursor>>
    /\ UNCHANGED appVars

\* The server's key space, and the record of SETEXs, after DEL removed the keys gone.
Removed(st, gone) == [i \in Slots |-> IF ScanOrder[i] \in gone THEN NoEntry ELSE st[i]]

Forgotten(ls, gone) == [i \in Slots |-> IF ScanOrder[i] \in gone THEN NoSet ELSE ls[i]]

\* A delete that takes the keys sharing the first characters of key with it.
DeleteAlike(t, key, from_url_fails) ==
    /\ pc[t] = "idle"
    /\ LET acq == GetRedis(redis_pool, constructed, from_url_fails)
           res == DeleteTry(acq, reachable)
           gone == {k \in AllKeys : SubSeq(k, 1, 7) = SubSeq(key, 1, 7)}
       IN /\ Finish(t, "delete", acq, res.ret, res.exc)
          /\ IF res.del
             THEN /\ store' = Removed(store, gone)
                  /\ lastSet' = Forgotten(lastSet, gone)
             ELSE UNCHANGED <<store, lastSet>>
    /\ UNCHANGED <<closeCalls, closedConns, reachable, capacity, advances, subscribed, inbox,
                   pc, pattern, keys, cursor>>
    /\ UNCHANGED appVars

\* CacheService.delete(key)
Delete(t, key, from_url_fails) ==
    /\ pc[t] = "idle"
    /\ LET acq == GetRedis(redis_pool, constructed, from_url_fails)
           res == DeleteTry(acq, reachable)
       IN /\ Finish(t, "delete", acq, res.ret, res.exc)
          /\ IF res.del
             THEN /\ store' = Removed(store, {key})
                  /\ lastSet' = Forgotten(lastSet, {key})
             ELSE UNCHANGED <<store, lastSet>>
    /\ UNCHANGED <<closeCalls, closedConns, reachable, capacity, advances, subscribed, inbox,
                   pc, pattern, keys, cursor>>
    /\ UNCHANGED appVars

\* CacheService.delete_pattern(pattern) up to its first SCAN, also as called
\* by the invalidate_* helpers.
DeletePatternBegin(t, entry, pat, from_url_fails) ==
    /\ pc[t] = "idle"
    /\ LET acq == GetRedis(redis_pool, constructed, from_url_fails) IN
        /\ Finish(t, entry, acq, IF acq.exc = NoFault THEN PyNone ELSE PyInt(0), acq.exc)
        /\ pc' = [pc EXCEPT ![t] = IF acq.exc = NoFault THEN "scan" ELSE "idle"]
    /\ pattern' = [pattern EXCEPT ![t] = pat]
    /\ keys' = [keys EXCEPT ![t] = <<>>]
    /\ cursor' = [cursor EXCEPT ![t] = 0]
    /\ UNCHANGED <<closeCalls, closedConns, serverVars>>
    /\ UNCHANGED appVars

\* One SCAN of the async for loop, covering the next n slots; after the last
\* one, `if keys:` either sends DEL or returns 0.
ScanStep(t, n) ==
    /\ pc[t] = "scan"
    /\ cursor[t] + n <= Len(ScanOrder)
    /\ IF ~reachable
       THEN /\ pc' = [pc EXCEPT ![t] = "idle"]
            /\ Return(t, op[t], PyInt(0), "ConnectionError")
            /\ UNCHANGED <<keys, cursor>>
       ELSE LET found == keys[t] \o ScanBatch(store, pattern[t], cursor[t], n)
                last == cursor[t] + n = Len(ScanOrder)
            IN /\ keys' = [keys EXCEPT ![t] = found]
               /\ cursor' = [cursor EXCEPT ![t] = @ + n]
               /\ pc' = [pc EXCEPT ![t] = IF ~last THEN "scan"
                                          ELSE IF found # <<>> THEN "del" ELSE "idle"]
               /\ ret' = [ret EXCEPT ![t] = IF last /\ found = <<>>
                                            THEN Returned(op[t], PyInt(0)) ELSE @]
               /\ UNCHANGED <<raised, logged>>
    /\ UNCHANGED <<connVars, serverVars, op, r, pattern>>
    /\ UNCHANGED appVars

\* return await r.delete(*keys)
DelStep(t) ==
    /\ pc[t] = "del"
    /\ pc' = [pc EXCEPT ![t] = "idle"]
    /\ IF ~reachable
       THEN /\ Return(t, op[t], PyInt(0), "ConnectionError")
            /\ UNCHANGED <<store, lastSet>>
       ELSE LET gone == DelTargets(keys[t], store) IN
            /\ store' = Removed(store, gone)
            /\ lastSet' = Forgotten(lastSet, gone)
            /\ ret' = [ret EXCEPT ![t] = Returned(op[t], PyInt(DelCount(keys[t], store)))]
            /\ UNCHANGED <<raised, logged>>
    /\ UNCHANGED <<connVars, reachable, capacity, advances, subscribed, inbox, op, r, pattern,
                   keys, cursor>>
    /\ UNCHANGED appVars

\* PubSubService.publish(channel, message), also as called by the notify_*
\* helpers: the server hands the message to the subscribers of the channel.
Publish(t, entry, channel, message, from_url_fails) ==
    /\ pc[t] = "idle"
    /\ LET acq == GetRedis(redis_pool, constructed, from_url_fails)
           res == PublishTry(acq, reachable, message)
       IN /\ Finish(t, entry, acq, PyNone, res.exc)
          /\ IF res.sent
             THEN /\ \A s \in Subscribers :
                        channel \in subscribed[s] => Len(inbox[s]) < MaxInbox
                  /\ inbox' = [s \in Subscribers |->
                                IF channel \in subscribed[s]
                                THEN Append(inbox[s], [channel |-> channel, data |-> res.data])
                                ELSE inbox[s]]
             ELSE UNCHANGED inbox
    /\ UNCHANGED <<closeCalls, closedConns, reachable, capacity, store, lastSet, advances,
                   subscribed, pc, pattern, keys, cursor>>
    /\ UNCHANGED appVars

(***************************************************************************)
(* The domain helpers of CacheService and PubSubService.                   *)
(***************************************************************************)
\* Helpers that fall back to the default of set.
HelperTtlMedium(ttl) == PyOr(ttl, PyInt(MEDIUM_TTL))

\* ttl or CacheService.LONG_TTL
HelperTtl(ttl) == PyOr(ttl, PyInt(LONG_TTL))

\* invalidate_products with the pattern product*.
invalidate_products_wide(t, f) ==
    DeletePatternBegin(t, "invalidate_products",
                       <<"p","r","o","d","u","c","t","*">>, f)

invalidate_products(t, f) ==
    DeletePatternBegin(t, "invalidate_products", PrefixPattern(PREFIX_PRODUCTS), f)

invalidate_categories(t, f) ==
    DeletePatternBegin(t, "invalidate_categories", PrefixPattern(PREFIX_CATEGORIES), f)

invalidate_car_brands(t, f) ==
    DeletePatternBegin(t, "invalidate_car_brands", PrefixPattern(PREFIX_CAR_BRANDS), f)

invalidate_car_models(t, f) ==
    DeletePatternBegin(t, "invalidate_car_models", PrefixPattern(PREFIX_CAR_MODELS), f)

invalidate_product_brands(t, f) ==
    DeletePatternBegin(t, "invalidate_product_brands",
                       PrefixPattern(PREFIX_PRODUCT_BRANDS), f)

get_all_products(t, f) == Get(t, "get_all_products", KeyOf(PREFIX_PRODUCTS, SUFFIX_ALL), f)

set_all_products(t, products, ttl, f) ==
    Set(t, "set_all_products", KeyOf(PREFIX_PRODUCTS, SUFFIX_ALL), products,
        HelperTtl(ttl), f)

get_product(t, product_id, f) ==
    Get(t, "get_product", KeyOf(PREFIX_PRODUCTS, product_id), f)

set_product(t, product_id, product, ttl, f) ==
    Set(t, "set_product", KeyOf(PREFIX_PRODUCTS, product_id), product, HelperTtl(ttl), f)

get_categories_tree(t, f) ==
    Get(t, "get_categories_tree", KeyOf(PREFIX_CATEGORIES, SUFFIX_TREE), f)

set_categories_tree(t, tree, ttl, f) ==
    Set(t, "set_categories_tree", KeyOf(PREFIX_CATEGORIES, SUFFIX_TREE), tree,
        HelperTtl(ttl), f)

get_all_car_brands(t, f) ==
    Get(t, "get_all_car_brands", KeyOf(PREFIX_CAR_BRANDS, SUFFIX_ALL), f)

\* set_all_car_brands written from set_all_car_models, the prefix not changed.
set_all_car_brands_pasted(t, brands, ttl, f) ==
    Set(t, "set_all_car_brands", KeyOf(PREFIX_CAR_MODELS, SUFFIX_ALL), brands,
        HelperTtl(ttl), f)

set_all_car_brands(t, brands, ttl, f) ==
    Set(t, "set_all_car_brands", KeyOf(PREFIX_CAR_BRANDS, SUFFIX_ALL), brands,
        HelperTtl(ttl), f)

get_all_car_models(t, f) ==
    Get(t, "get_all_car_models", KeyOf(PREFIX_CAR_MODELS, SUFFIX_ALL), f)

set_all_car_models(t, models, ttl, f) ==
    Set(t, "set_all_car_models", KeyOf(PREFIX_CAR_MODELS, SUFFIX_ALL), models,
        HelperTtl(ttl), f)

get_all_product_brands(t, f) ==
    Get(t, "get_all_product_brands", KeyOf(PREFIX_PRODUCT_BRANDS, SUFFIX_ALL), f)

set_all_product_brands(t, brands, ttl, f) ==
    Set(t, "set_all_product_brands", KeyOf(PREFIX_PRODUCT_BRANDS, SUFFIX_ALL), brands,
        HelperTtl(ttl), f)

get_last_sync_timestamp(t, table, f) ==
    Get(t, "get_last_sync_timestamp", KeyOf(PREFIX_SYNC, SUFFIX_TIMESTAMP \o table), f)

\* set_last_sync_timestamp with one key for every table.
set_last_sync_timestamp_shared(t, table, timestamp, f) ==
    Set(t, "set_last_sync_timestamp",
        KeyOf(PREFIX_SYNC, SUFFIX_TIMESTAMP \o <<"o","r","d","e","r","s">>),
        timestamp, PyInt(LONG_TTL), f)

set_last_sync_timestamp(t, table, timestamp, f) ==
    Set(t, "set_last_sync_timestamp", KeyOf(PREFIX_SYNC, SUFFIX_TIMESTAMP \o table),
        timestamp, PyInt(LONG_TTL), f)

S_product_id == <<"p","r","o","d","u","c","t","_","i","d">>

S_order_id == <<"o","r","d","e","r","_","i","d">>

S_user_id == <<"u","s","e","r","_","i","d">>

S_action == <<"a","c","t","i","o","n">>

S_tables == <<"t","a","b","l","e","s">>

S_sync_available == <<"s","y","n","c","_","a","v","a","i","l","a","b","l","e">>

S_updated == <<"u","p","d","a","t","e","d">>

Member(name, value) == <<PyStr(name), value>>

\* notify_product_change with the id under the key "id".
notify_product_change_id(t, product_id, action, f) ==
    Publish(t, "notify_product_change", CHANNEL_PRODUCTS,
            PyDict(<<Member(<<"i","d">>, product_id), Member(S_action, action)>>), f)

notify_product_change(t, product_id, action, f) ==
    Publish(t, "notify_product_change", CHANNEL_PRODUCTS,
            PyDict(<<Member(S_product_id, product_id), Member(S_action, action)>>), f)

\* notify_order_change that leaves user_id out of the message when it is None.
notify_order_change_sparse(t, order_id, action, user_id, f) ==
    Publish(t, "notify_order_change", CHANNEL_ORDERS,
            IF user_id = PyNone
            THEN PyDict(<<Member(S_order_id, order_id), Member(S_action, action)>>)
            ELSE PyDict(<<Member(S_order_id, order_id), Member(S_action, action),
                          Member(S_user_id, user_id)>>), f)

notify_order_change(t, order_id, action, user_id, f) ==
    Publish(t, "notify_order_change", CHANNEL_ORDERS,
            PyDict(<<Member(S_order_id, order_id), Member(S_action, action),
                     Member(S_user_id, user_id)>>), f)

notify_sync_available(t, tables, f) ==
    Publish(t, "notify_sync_available", CHANNEL_SYNC,
            PyDict(<<Member(S_tables, tables),
                     Member(S_action, PyStr(S_sync_available))>>), f)

(***************************************************************************)
(* The environment: the server, the clock, the other clients.              *)
(***************************************************************************)
\* The server stops answering: every command raises in the client.
Outage ==
    /\ reachable
    /\ reachable' = FALSE
    /\ UNCHANGED <<connVars, capacity, store, lastSet, advances, subscribed, inbox, taskVars>>
    /\ UNCHANGED appVars

Recover ==
    /\ ~reachable
    /\ reachable' = TRUE
    /\ UNCHANGED <<connVars, capacity, store, lastSet, advances, subscribed, inbox, taskVars>>
    /\ UNCHANGED appVars

\* d seconds pass.  The server drops an entry once more than the TTL SETEX gave
\* it has passed; ttl is the time the entry has left, -1 for an entry with none.
Advance(d) ==
    /\ advances < MaxAdvance
    /\ advances' = advances + 1
    /\ store' = [i \in Slots |->
                    IF ~store[i].present \/ store[i].ttl = -1 THEN store[i]
                    ELSE IF store[i].ttl - d < 0 THEN NoEntry
                    ELSE [store[i] EXCEPT !.ttl = @ - d]]
    /\ lastSet' = [i \in Slots |->
                    IF ~lastSet[i].done THEN NoSet
                    ELSE [lastSet[i] EXCEPT
                            !.age = @ + d,
                            !.intact = @ /\ store[i].ttl - d >= 0]]
    /\ UNCHANGED <<connVars, reachable, capacity, subscribed, inbox, taskVars>>
    /\ UNCHANGED appVars

\* Another client of the server stores text that json.dumps did not write.
ExternalWrite(key, data) ==
    /\ ~OutOfMemory(store, capacity, key)
    /\ store' = [store EXCEPT ![Slot(key)] = [present |-> TRUE, data |-> data, ttl |-> -1]]
    /\ lastSet' = [lastSet EXCEPT ![Slot(key)] = NoSet]
    /\ UNCHANGED <<connVars, reachable, capacity, advances, subscribed, inbox, taskVars>>
    /\ UNCHANGED appVars

\* A listener of another process subscribes to, or leaves, a channel.
Subscribe(s, channel) ==
    /\ channel \notin subscribed[s]
    /\ subscribed' = [subscribed EXCEPT ![s] = @ \cup {channel}]
    /\ UNCHANGED <<connVars, reachable, capacity, store, lastSet, advances, inbox, taskVars>>
    /\ UNCHANGED appVars

Unsubscribe(s, channel) ==
    /\ channel \in subscribed[s]
    /\ subscribed' = [subscribed EXCEPT ![s] = @ \ {channel}]
    /\ UNCHANGED <<connVars, reachable, capacity, store, lastSet, advances, inbox, taskVars>>
    /\ UNCHANGED appVars

(***************************************************************************)
(* Specifications.  Spec: one caller that may call every entry point of    *)
(* CacheService and PubSubService, and a server that may stop answering.   *)
(* The others take the same actions over the inputs one group of           *)
(* properties needs.                                                       *)
(***************************************************************************)
\* The task of the specifications with one caller.
Caller == CHOOSE t \in Tasks : \A u \in Tasks : t <= u

\* What the caller of Spec caches: a timestamp, and a dict json.dumps rejects
\* (its key is a tuple).
BadDict == PyDict(<<<<PyTuple(<<>>), PyInt(1)>>>>)

SmallValues == {PyInt(0), BadDict}

\* ttl arguments: left out, and one the server rejects.
SmallTtls == {PyNone, PyInt(-1)}

\* Text in the store that is not a JSON document: the empty string, and "[".
ForeignTexts == {<<>>, <<Punct("[")>>}

CacheCalls(t) ==
    \/ \E f \in FromUrlFails : Get(t, "get", K_products_all, f)
    \/ \E v \in SmallValues, ttl \in SmallTtls, f \in FromUrlFails :
            Set(t, "set", K_products_all, v, ttl, f)
    \/ \E f \in FromUrlFails : Delete(t, K_products_all, f)
    \/ \E f \in FromUrlFails :
            DeletePatternBegin(t, "delete_pattern", PrefixPattern(PREFIX_PRODUCTS), f)
    \/ ScanStep(t, Len(ScanOrder))
    \/ DelStep(t)

HelperCalls(t) ==
    \/ \E f \in FromUrlFails : invalidate_products(t, f)
    \/ \E f \in FromUrlFails : invalidate_categories(t, f)
    \/ \E f \in FromUrlFails : invalidate_car_brands(t, f)
    \/ \E f \in FromUrlFails : invalidate_car_models(t, f)
    \/ \E f \in FromUrlFails : invalidate_product_brands(t, f)
    \/ \E f \in FromUrlFails : get_all_products(t, f)
    \/ \E f \in FromUrlFails : set_all_products(t, PyList(<<>>), PyNone, f)
    \/ \E f \in FromUrlFails : get_product(t, <<"1">>, f)
    \/ \E f \in FromUrlFails : set_product(t, <<"1">>, PyDict(<<>>), PyNone, f)
    \/ \E f \in FromUrlFails : get_categories_tree(t, f)
    \/ \E f \in FromUrlFails : set_categories_tree(t, PyList(<<>>), PyNone, f)
    \/ \E f \in FromUrlFails : get_all_car_brands(t, f)
    \/ \E f \in FromUrlFails : set_all_car_brands(t, PyList(<<>>), PyNone, f)
    \/ \E f \in FromUrlFails : get_all_car_models(t, f)
    \/ \E f \in FromUrlFails : set_all_car_models(t, PyList(<<>>), PyNone, f)
    \/ \E f \in FromUrlFails : get_all_product_brands(t, f)
    \/ \E f \in FromUrlFails : set_all_product_brands(t, PyList(<<>>), PyNone, f)
    \/ \E table \in TableNames, f \in FromUrlFails : get_last_sync_timestamp(t, table, f)
    \/ \E table \in TableNames, f \in FromUrlFails :
            set_last_sync_timestamp(t, table, PyInt(0), f)

NotifyCalls(t) ==
    \/ \E f \in FromUrlFails : Publish(t, "publish", CHANNEL_SYNC, BadDict, f)
    \/ \E f \in FromUrlFails : notify_product_change(t, PyStr(<<"1">>), PyStr(S_updated), f)
    \/ \E f \in FromUrlFails :
            notify_order_change(t, PyStr(<<"1">>), PyStr(S_updated), PyNone, f)
    \/ \E f \in FromUrlFails :
            notify_sync_available(t, PyList(<<PyStr(<<"o","r","d","e","r","s">>)>>), f)

Next ==
    \/ CacheCalls(Caller)
    \/ HelperCalls(Caller)
    \/ NotifyCalls(Caller)
    \/ Outage
    \/ Recover
    \/ \E data \in ForeignTexts : ExternalWrite(K_products_all, data)

Spec == Init /\ [][Next]_vars

\* The shared handle alone: tasks that acquire it, use it and release it.
NextConn ==
    \/ \E t \in Tasks, f \in FromUrlFails : get_redis(t, f)
    \/ \E t \in Tasks : CloseBegin(t)
    \/ \E t \in Tasks, cf \in BOOLEAN : CloseEnd(t, cf)
    \/ \E t \in Tasks, f \in FromUrlFails : Get(t, "get", K_products_all, f)

SpecConn == Init /\ [][NextConn]_vars

\* One caller and a server with room: what set stores and get returns, for
\* values of every type.
S_a == <<"a">>

S_b == <<"b">>

JsonValues ==
    {PyNone, PyBool(FALSE), PyBool(TRUE), PyInt(0), PyInt(1), PyStr(<<>>), PyStr(S_a),
     PyList(<<>>), PyDict(<<>>),
     PyList(<<PyInt(1), PyStr(S_a)>>),
     PyList(<<PyList(<<PyNone>>), PyDict(<<>>)>>),
     PyDict(<<Member(S_b, PyList(<<PyBool(TRUE)>>)),
              Member(S_a, PyDict(<<Member(S_b, PyNone)>>))>>)}

\* Values json has no encoding of its own for: a tuple, a dict with an int key,
\* a datetime, and a dict json.dumps rejects.
OtherValues ==
    {PyTuple(<<PyInt(1)>>), PyDict(<<<<PyInt(10), PyStr(S_a)>>>>),
     PyObj(<<"2","0","2","4">>), PyList(<<PyObj(<<"2","0","2","4">>)>>), BadDict}

StoreTtls == {PyNone, PyInt(0), PyInt(1), PyInt(2)}

NextRoundTrip ==
    \/ \E f \in FromUrlFails : Get(Caller, "get", K_products_all, f)
    \/ \E v \in JsonValues \cup OtherValues, ttl \in StoreTtls, f \in FromUrlFails :
            Set(Caller, "set", K_products_all, v, ttl, f)
    \/ \E f \in FromUrlFails : Delete(Caller, K_products_all, f)
    \/ Outage
    \/ Recover

SpecRoundTrip == InitRoomy /\ [][NextRoundTrip]_vars

\* One caller, a server with room and the clock: how long an entry lives.
Seconds == {1, MEDIUM_TTL}

NextExpiry ==
    \/ \E k \in {K_products_all, K_categories_tree}, f \in FromUrlFails :
            Get(Caller, "get", k, f)
    \/ \E k \in {K_products_all, K_categories_tree}, ttl \in StoreTtls,
          f \in FromUrlFails : Set(Caller, "set", k, PyList(<<PyInt(1)>>), ttl, f)
    \/ \E f \in FromUrlFails : Delete(Caller, K_products_all, f)
    \/ \E d \in Seconds : Advance(d)
    \/ Outage
    \/ Recover

SpecExpiry == InitRoomy /\ [][NextExpiry]_vars

\* One caller that fills the cache and invalidates it, domain by domain.
SeqKeys ==
    {K_products_all, K_product(<<"1">>), K_product(<<"2">>), K_categories_tree,
     K_car_brands_all, K_car_models_all, K_product_brands_all,
     K_sync_timestamp(<<"o","r","d","e","r","s">>)}

NextSeq ==
    \/ \E k \in SeqKeys, f \in FromUrlFails : Set(Caller, "set", k, PyInt(1), PyNone, f)
    \/ \E f \in FromUrlFails : invalidate_products(Caller, f)
    \/ \E f \in FromUrlFails : invalidate_categories(Caller, f)
    \/ \E f \in FromUrlFails : invalidate_car_brands(Caller, f)
    \/ \E f \in FromUrlFails : invalidate_car_models(Caller, f)
    \/ \E f \in FromUrlFails : invalidate_product_brands(Caller, f)
    \/ \E f \in FromUrlFails :
            DeletePatternBegin(Caller, "delete_pattern", PrefixPattern(PREFIX_PRODUCTS), f)
    \/ \E n \in Slots : ScanStep(Caller, n)
    \/ DelStep(Caller)
    \/ Outage
    \/ Recover

SpecSeq == InitRoomy /\ [][NextSeq]_vars

\* One task that deletes by pattern while the others write and delete keys.
Writers == Tasks \ {Caller}

PatternKeys == {K_products_all, K_product(<<"1">>), K_product_brands_all}

Patterns == {PrefixPattern(PREFIX_PRODUCTS), PrefixPattern(PREFIX_SYNC)}

NextInval ==
    \/ \E pat \in Patterns, f \in FromUrlFails :
            DeletePatternBegin(Caller, "delete_pattern", pat, f)
    \/ \E n \in Slots : ScanStep(Caller, n)
    \/ DelStep(Caller)
    \/ \E t \in Writers, k \in PatternKeys, f \in FromUrlFails :
            Set(t, "set", k, PyInt(1), PyNone, f)
    \/ \E t \in Writers, k \in PatternKeys, f \in FromUrlFails : Delete(t, k, f)
    \/ Outage
    \/ Recover

SpecInval == InitRoomy /\ [][NextInval]_vars

\* The messages the caller of SpecNotify hands to publish itself.
Messages == {BadDict, PyDict(<<>>)}

\* One caller that notifies, and listeners that come and go.
S_p1 == <<"p","1">>

S_orders == <<"o","r","d","e","r","s">>

UserIds == {PyNone, PyStr(<<"u","7">>)}

TableLists == {PyList(<<>>), PyList(<<PyStr(S_orders), PyStr(<<"p","r","o","d","u","c","t","s">>)>>)}

\* The channels each listener may subscribe to.
Listens(s) == IF s = "s1" THEN Channels ELSE {CHANNEL_PRODUCTS}

NextNotify ==
    \/ \E f \in FromUrlFails :
            notify_product_change(Caller, PyStr(S_p1), PyStr(S_updated), f)
    \/ \E user_id \in UserIds, f \in FromUrlFails :
            notify_order_change(Caller, PyStr(<<"1">>), PyStr(S_updated), user_id, f)
    \/ \E tables \in TableLists, f \in FromUrlFails :
            notify_sync_available(Caller, tables, f)
    \/ \E message \in Messages, f \in FromUrlFails :
            Publish(Caller, "publish", CHANNEL_SYNC, message, f)
    \/ \E s \in Subscribers : \E channel \in Listens(s) : Subscribe(s, channel)
    \/ \E s \in Subscribers : \E channel \in Listens(s) : Unsubscribe(s, channel)
    \/ Outage
    \/ Recover

SpecNotify == Init /\ [][NextNotify]_vars

\* One caller that caches and reads the lists of the five domains.
Brands == PyList(<<PyStr(S_a), PyStr(S_b)>>)

BrandLists == {Brands, PyList(<<PyStr(S_b), PyStr(S_a)>>)}

HelperTtls == {PyNone, PyInt(SHORT_TTL)}

NextHelpers ==
    \/ \E f \in FromUrlFails : get_all_products(Caller, f)
    \/ \E ttl \in HelperTtls, f \in FromUrlFails : set_all_products(Caller, Brands, ttl, f)
    \/ \E f \in FromUrlFails : get_categories_tree(Caller, f)
    \/ \E ttl \in HelperTtls, f \in FromUrlFails : set_categories_tree(Caller, Brands, ttl, f)
    \/ \E f \in FromUrlFails : get_all_car_brands(Caller, f)
    \/ \E brands \in BrandLists, ttl \in HelperTtls, f \in FromUrlFails :
            set_all_car_brands(Caller, brands, ttl, f)
    \/ \E f \in FromUrlFails : get_all_car_models(Caller, f)
    \/ \E ttl \in HelperTtls, f \in FromUrlFails : set_all_car_models(Caller, Brands, ttl, f)
    \/ \E f \in FromUrlFails : get_all_product_brands(Caller, f)
    \/ \E ttl \in HelperTtls, f \in FromUrlFails :
            set_all_product_brands(Caller, Brands, ttl, f)
    \/ Outage
    \/ Recover

SpecHelpers == InitRoomy /\ [][NextHelpers]_vars

\* One caller that keeps the sync timestamps of two tables, and the clock.
Timestamps == {PyInt(0), PyInt(1), PyInt(17)}

NextSync ==
    \/ \E table \in TableNames, f \in FromUrlFails :
            get_last_sync_timestamp(Caller, table, f)
    \/ \E table \in TableNames, timestamp \in Timestamps, f \in FromUrlFails :
            set_last_sync_timestamp(Caller, table, timestamp, f)
    \/ Advance(LONG_TTL)
    \/ Outage
    \/ Recover

SpecSync == InitRoomy /\ [][NextSync]_vars

\* A step of get, set, delete, delete_pattern or publish by task t.
UsageStep(t) ==
    \/ CacheCalls(t)
    \/ \E message \in Messages, f \in FromUrlFails :
            Publish(t, "publish", CHANNEL_SYNC, message, f)

\* The task that acquires and releases the shared handle beside the caller.
Releaser == CHOOSE t \in Writers : \A u \in Writers : t <= u

\* One caller of the entry points beside a task that acquires and releases the
\* shared handle, and a server that may stop answering.
NextFrame ==
    \/ UsageStep(Caller)
    \/ \E f \in FromUrlFails : get_redis(Releaser, f)
    \/ CloseBegin(Releaser)
    \/ \E close_fails \in BOOLEAN : CloseEnd(Releaser, close_fails)
    \/ Outage
    \/ Recover

SpecFrame == Init /\ [][NextFrame]_vars

\* delete_pattern beside writers whose entries expire and are deleted.
NextSweep ==
    \/ \E f \in FromUrlFails :
            DeletePatternBegin(Caller, "delete_pattern", PrefixPattern(PREFIX_PRODUCTS), f)
    \/ ScanStep(Caller, Len(ScanOrder) \div 2)
    \/ DelStep(Caller)
    \/ \E t \in Writers, k \in PatternKeys : Set(t, "set", k, PyInt(1), PyNone, FALSE)
    \/ \E t \in Writers, k \in PatternKeys : Delete(t, k, FALSE)
    \/ Advance(LONG_TTL)
    \/ Outage
    \/ Recover

SpecSweep == InitRoomy /\ [][NextSweep]_vars

(***************************************************************************)
(* The cache-aside use of the product list.  The application keeps the     *)
(* products in a primary store; a reader calls get_all_products and, on a   *)
(* miss, reads the primary store and calls set_all_products with what it    *)
(* read; a writer writes the primary store and then calls                   *)
(* invalidate_products.  The steps of one caller are steps of its own:      *)
(* each call is awaited, so the other tasks run in between.                 *)
(***************************************************************************)
\* The product lists the writers store.
Products == {PyList(<<PyInt(1)>>), PyList(<<PyInt(2)>>)}

\* Task t is inside a read-through or a write: it has a step left to take.
InFlight(t) ==
    \/ pc[t] # "idle"
    \/ op[t] \in {"read_primary", "write_primary"}
    \/ op[t] = "get_all_products" /\ ret[t] = PyNone

\* A reader looks the product list up in the cache.
ReaderLookup(t) ==
    /\ ~InFlight(t)
    /\ get_all_products(t, FALSE)

\* After a miss the reader reads the product list from the primary store.
ReaderRead(t) ==
    /\ pc[t] = "idle"
    /\ op[t] = "get_all_products"
    /\ ret[t] = PyNone
    /\ fetched' = [fetched EXCEPT ![t] = primary]
    /\ op' = [op EXCEPT ![t] = "read_primary"]
    /\ UNCHANGED <<connVars, serverVars, pc, r, pattern, keys, cursor, ret, raised, logged,
                   primary>>

\* The reader fills the cache with the list it read.
ReaderFill(t) ==
    /\ op[t] = "read_primary"
    /\ set_all_products(t, fetched[t], PyNone, FALSE)

\* A writer replaces the product list of the primary store.
WriterWrite(t, products) ==
    /\ ~InFlight(t)
    /\ products # primary
    /\ primary' = products
    /\ op' = [op EXCEPT ![t] = "write_primary"]
    /\ UNCHANGED <<connVars, serverVars, pc, r, pattern, keys, cursor, ret, raised, logged,
                   fetched>>

\* The writer invalidates the products domain right after its write.
WriterInvalidate(t) ==
    /\ op[t] = "write_primary"
    /\ invalidate_products(t, FALSE)

\* No task has a step of a read-through or of a write left.
Quiescent == \A t \in Tasks : ~InFlight(t)

NextAside ==
    \/ \E t \in Tasks : ReaderLookup(t)
    \/ \E t \in Tasks : ReaderRead(t)
    \/ \E t \in Tasks : ReaderFill(t)
    \/ \E t \in Tasks, products \in Products : WriterWrite(t, products)
    \/ \E t \in Tasks : WriterInvalidate(t)
    \/ \E t \in Tasks : ScanStep(t, Len(ScanOrder))
    \/ \E t \in Tasks : DelStep(t)

SpecAside == InitRoomy /\ [][NextAside]_vars

(***************************************************************************)
(* Properties of the shared handle.                                        *)
(***************************************************************************)
\* The handles get_redis has given out and that are still in use.
NoReleaseYet == \A c \in 1..MaxConns : closeCalls[c] = 0

\* C1: as long as no release has begun, however many tasks have called
\* get_redis, at most one connection has been constructed, and every task
\* that got a handle got that one, the shared instance.
C1_SingleConstruction ==
    NoReleaseYet =>
        /\ constructed <= 1
        /\ \A t \in Tasks : r[t] # 0 => r[t] = redis_pool /\ r[t] = constructed

\* Every task holds a handle, none was released, one connection exists.
C1_Witness ==
    /\ NoReleaseYet
    /\ constructed = 1
    /\ \A t \in Tasks : r[t] = 1 /\ op[t] \in {"get_redis", "get"}

\* C10: a close_redis that finds no connection returns at once, calls no
\* close() and changes nothing of the connection state; a close_redis whose
\* close() returns has closed the connection that was shared when it was
\* called and leaves redis_pool None.
C10_ReleaseIdempotent ==
    [][\A t \in Tasks :
        /\ (CloseBegin(t) /\ redis_pool = 0) =>
                /\ UNCHANGED <<connVars, serverVars, r>>
                /\ pc'[t] = "idle" /\ raised'[t] = NoFault /\ ret'[t] = PyNone
        /\ (CloseBegin(t) /\ redis_pool # 0) =>
                /\ closeCalls'[redis_pool] = closeCalls[redis_pool] + 1
                /\ pc'[t] = "closing"
        /\ CloseEnd(t, FALSE) => redis_pool' = 0 /\ r[t] \in closedConns'
      ]_vars

\* One task has closed the connection and left the reference None; another
\* has called close_redis and never had a connection to close.
C10_Witness ==
    \E t1, t2 \in Tasks :
        /\ op[t1] = "close_redis" /\ pc[t1] = "idle" /\ raised[t1] = NoFault
        /\ r[t1] \in closedConns
        /\ op[t2] = "close_redis" /\ pc[t2] = "idle" /\ r[t2] = 0
        /\ redis_pool = 0

(***************************************************************************)
(* Properties of get and set.                                              *)
(***************************************************************************)
RECURSIVE IsJson(_)
\* The values JSON represents: null, booleans, numbers, strings, arrays of
\* them and objects with string keys.
IsJson(value) ==
    CASE value[1] \in {"none", "bool", "int", "str"} -> TRUE
      [] value[1] = "list" -> \A i \in 1..Len(value[2]) : IsJson(value[2][i])
      [] value[1] = "dict" ->
            \A i \in 1..Len(value[2]) :
                value[2][i][1][1] = "str" /\ IsJson(value[2][i][2])
      [] OTHER -> FALSE

\* A step in which task t calls get(key) and the call reaches the server.
GetAnswered(t, key) ==
    /\ \E f \in BOOLEAN : Get(t, "get", key, f)
    /\ reachable
    /\ r'[t] # 0

\* C4: a get(k) that reaches the server while the entry of k is as a set(k, v,
\* t) with t > 0 wrote it (no write, delete or expiry of k since) returns a
\* value equal to v, for every JSON-representable v.
C4_RoundTrip ==
    [][\A t \in Tasks, k \in AllKeys :
        (/\ GetAnswered(t, k)
         /\ Entry(lastSet, k).intact
         /\ IsJson(Entry(lastSet, k).value)
         /\ Entry(lastSet, k).given[1] = "int" /\ Entry(lastSet, k).given[2] > 0)
        => ret'[t] = Entry(lastSet, k).value /\ raised'[t] = NoFault /\ logged'[t] = NoFault
      ]_vars

\* A get has returned the nested dict that a set with ttl 2 stored.
C4_Witness ==
    \E k \in AllKeys :
        /\ Entry(lastSet, k).intact /\ Entry(lastSet, k).given = PyInt(2)
        /\ Entry(lastSet, k).value[1] = "dict" /\ Len(Entry(lastSet, k).value[2]) = 2
        /\ op[Caller] = "get" /\ ret[Caller] = Entry(lastSet, k).value

\* The TTL set() assigns for the ttl it is given: that ttl, or MEDIUM_TTL when
\* it is left out (or 0).
AssignedTtl(given) == IF given[1] = "int" /\ given[2] # 0 THEN given[2] ELSE MEDIUM_TTL

C2_MissOnFailure ==
    [][\A t \in Tasks, k \in AllKeys :
        ~reachable =>
            /\ (\E f \in BOOLEAN : Get(t, "get", k, f)) =>
                    ret'[t] = PyNone /\ raised'[t] = NoFault
            /\ (\E v \in JsonValues \cup OtherValues, ttl \in StoreTtls, f \in BOOLEAN :
                    Set(t, "set", k, v, ttl, f)) =>
                    ret'[t] = PyBool(FALSE) /\ raised'[t] = NoFault /\ store' = store
            /\ (\E f \in BOOLEAN : Delete(t, k, f)) =>
                    ret'[t] = PyBool(FALSE) /\ raised'[t] = NoFault /\ store' = store
      ]_vars

\* With the server unreachable and an entry stored, a delete has returned
\* False after logging the connection error.
C2_Witness ==
    /\ ~reachable
    /\ Entry(store, K_products_all).present
    /\ op[Caller] = "delete" /\ ret[Caller] = PyBool(FALSE)
    /\ logged[Caller] = "ConnectionError" /\ raised[Caller] = NoFault
    /\ r[Caller] # 0

\* C3: no entry point of CacheService or PubSubService raises: whatever
\* fails, constructing the connection or using it, the caller gets a normal
\* return, and after a failure the value is None, False or 0.
C3_NoErrorRaised ==
    \A t \in Tasks :
        /\ raised[t] = NoFault
        /\ (pc[t] = "idle" /\ logged[t] # NoFault) =>
                ret[t] \in {PyNone, PyBool(FALSE), PyInt(0)}

\* notify_order_change has returned normally although get_redis could not
\* construct the connection.
C3_Witness ==
    /\ op[Caller] = "notify_order_change" /\ pc[Caller] = "idle"
    /\ logged[Caller] = "ValueError" /\ raised[Caller] = NoFault
    /\ redis_pool = 0

(***************************************************************************)
(* Properties of delete_pattern and the invalidate helpers.                *)
(***************************************************************************)
\* The prefix of the domain each invalidate helper is for.
DomainPrefix(entry) ==
    CASE entry = "invalidate_products" -> PREFIX_PRODUCTS
      [] entry = "invalidate_categories" -> PREFIX_CATEGORIES
      [] entry = "invalidate_car_brands" -> PREFIX_CAR_BRANDS
      [] entry = "invalidate_car_models" -> PREFIX_CAR_MODELS
      [] entry = "invalidate_product_brands" -> PREFIX_PRODUCT_BRANDS

Invalidators ==
    {"invalidate_products", "invalidate_categories", "invalidate_car_brands",
     "invalidate_car_models", "invalidate_product_brands"}

\* A step in which the call task t is in returns, no exception logged.
Completes(t) == pc[t] # "idle" /\ pc'[t] = "idle" /\ logged'[t] = NoFault

\* C6: with no other writer, no step of an invalidate helper changes a key
\* outside the prefix of its domain, and when the helper returns without a
\* failure no key under that prefix is left.
C6_InvalidateByPrefix ==
    [][\A t \in Tasks :
        op'[t] \in Invalidators =>
            /\ \A k \in AllKeys :
                    ~StartsWith(k, DomainPrefix(op'[t])) =>
                        Entry(store', k) = Entry(store, k)
            /\ (op[t] = op'[t] /\ Completes(t)) =>
                    \A k \in AllKeys :
                        StartsWith(k, DomainPrefix(op[t])) => ~Entry(store', k).present
      ]_vars

\* invalidate_products has returned: the three products: keys it enumerated
\* are gone, categories:tree and product_brands:all are still there.
C6_Witness ==
    /\ op[Caller] = "invalidate_products" /\ pc[Caller] = "idle"
    /\ logged[Caller] = NoFault /\ Len(keys[Caller]) = 3
    /\ \A k \in AllKeys : StartsWith(k, PREFIX_PRODUCTS) => ~Entry(store, k).present
    /\ Entry(store, K_categories_tree).present
    /\ Entry(store, K_product_brands_all).present

\* C7 as claimed: invalidate_products returns the number of keys it removed,
\* 3 when it enumerated and removed products:all, products:1 and products:2.
C7_Claimed ==
    \A t \in Tasks :
        (/\ op[t] = "invalidate_products" /\ pc[t] = "idle" /\ logged[t] = NoFault
         /\ Len(keys[t]) = 3)
        => ret[t] = PyInt(3)

\* C7, amended: the DEL of invalidate_products removes the keys enumerated,
\* and invalidate_products returns None; the number removed is what
\* delete_pattern itself returns.
C7_InvalidateReturnsNone ==
    [][\A t \in Tasks :
        (DelStep(t) /\ reachable) =>
            LET gone == {k \in AllKeys : Entry(store, k).present
                                         /\ ~Entry(store', k).present}
            IN /\ op[t] \in Invalidators => ret'[t] = PyNone
               /\ op[t] = "delete_pattern" => ret'[t] = PyInt(Cardinality(gone))
               /\ gone = {keys[t][i] : i \in 1..Len(keys[t])}
      ]_vars

\* invalidate_products has removed three keys, left categories:tree, and
\* returned None.
C7_Witness ==
    /\ op[Caller] = "invalidate_products" /\ pc[Caller] = "idle"
    /\ logged[Caller] = NoFault /\ Len(keys[Caller]) = 3
    /\ \A k \in AllKeys : StartsWith(k, PREFIX_PRODUCTS) => ~Entry(store, k).present
    /\ Entry(store, K_categories_tree).present
    /\ ret[Caller] = PyNone

\* C8: delete_pattern returns the number of keys its DEL removed; it returns
\* 0, and removes nothing, when its scan found no key and when the connection,
\* a SCAN or the DEL fails.
C8_DeletePatternCount ==
    [][\A t \in Tasks :
        (/\ op'[t] = "delete_pattern" /\ pc'[t] = "idle"
         /\ \/ \E pat \in Patterns, f \in BOOLEAN :
                    DeletePatternBegin(t, "delete_pattern", pat, f)
            \/ \E n \in Slots : ScanStep(t, n)
            \/ DelStep(t)) =>
            LET gone == {k \in AllKeys : Entry(store, k).present
                                         /\ ~Entry(store', k).present}
            IN /\ ret'[t] = PyInt(Cardinality(gone))
               /\ raised'[t] = NoFault
               /\ (logged'[t] # NoFault \/ pc[t] # "del") =>
                        ret'[t] = PyInt(0) /\ store' = store
      ]_vars

\* delete_pattern has returned 1 for two keys enumerated: another task
\* deleted one of them before the DEL.
C8_Witness ==
    /\ op[Caller] = "delete_pattern" /\ pc[Caller] = "idle"
    /\ logged[Caller] = NoFault
    /\ Len(keys[Caller]) = 2 /\ ret[Caller] = PyInt(1)

\* C9: the DEL of delete_pattern removes the keys its scan enumerated and
\* leaves every other key as it is, also one that matches the pattern and was
\* written after the scan passed its slot; the scan itself removes nothing.
C9_ScanThenDelete ==
    [][\A t \in Tasks :
        /\ (DelStep(t) /\ reachable) =>
                \A k \in AllKeys :
                    IF \E i \in 1..Len(keys[t]) : keys[t][i] = k
                    THEN ~Entry(store', k).present
                    ELSE Entry(store', k) = Entry(store, k)
        /\ (\E n \in Slots : ScanStep(t, n)) => store' = store
      ]_vars

\* Between the scan and the DEL: one matching key was enumerated and will be
\* removed, another was written after the scan passed its slot and will stay.
C9_Witness ==
    /\ pc[Caller] = "del" /\ pattern[Caller] = PrefixPattern(PREFIX_PRODUCTS)
    /\ keys[Caller] = <<K_products_all>>
    /\ Entry(store, K_products_all).present
    /\ Entry(store, K_product(<<"1">>)).present
    /\ GlobMatch(pattern[Caller], K_product(<<"1">>))

(***************************************************************************)
(* Further properties of the shared handle.                                *)
(***************************************************************************)
\* C11: redis_pool changes only when get_redis constructs a connection (from
\* None to the new one) and when a close_redis completes (to None).  In
\* between, every get_redis returns the connection redis_pool holds and
\* constructs none, and that connection is not one whose close() has
\* completed; with redis_pool None, a get_redis whose from_url returns
\* constructs a connection that did not exist before.
C11_SameUntilRelease ==
    [][/\ \A t \in Tasks :
            (get_redis(t, FALSE) \/ Get(t, "get", K_products_all, FALSE)) =>
                IF redis_pool # 0
                THEN /\ r'[t] = redis_pool
                     /\ UNCHANGED <<redis_pool, constructed>>
                     /\ redis_pool \notin closedConns
                ELSE /\ constructed' = constructed + 1
                     /\ r'[t] = constructed' /\ redis_pool' = constructed'
                     /\ \A u \in Tasks : r[u] # r'[t]
                     /\ r'[t] \notin closedConns
       /\ redis_pool' # redis_pool =>
            \/ redis_pool = 0 /\ redis_pool' = constructed + 1 /\ constructed' = constructed + 1
            \/ redis_pool' = 0 /\ \E t \in Tasks : CloseEnd(t, FALSE)
      ]_vars

\* After a completed release of the first connection a second one was
\* constructed, and every task that acquired since holds the second.
C11_Witness ==
    /\ constructed = 2 /\ redis_pool = 2 /\ closedConns = {1}
    /\ \A t \in Tasks : r[t] = 2 /\ op[t] = "get_redis" /\ raised[t] = NoFault

\* C12: when redis.from_url raises, get_redis raises that exception to its
\* caller in the same call, gives no handle, and leaves redis_pool None and no
\* connection constructed, so that the next get_redis calls from_url again;
\* a cache operation that meets the failure logs it and raises nothing, so
\* the exception reaches a caller from get_redis only.
C12_ConstructionFailure ==
    [][\A t \in Tasks :
        /\ (get_redis(t, TRUE) /\ redis_pool = 0) =>
                /\ raised'[t] = "ValueError" /\ r'[t] = 0
                /\ redis_pool' = 0 /\ constructed' = constructed
        /\ (Get(t, "get", K_products_all, TRUE) /\ redis_pool = 0) =>
                /\ raised'[t] = NoFault /\ logged'[t] = "ValueError"
                /\ ret'[t] = PyNone
                /\ redis_pool' = 0 /\ constructed' = constructed
        /\ raised'[t] = "ValueError" => op'[t] = "get_redis"
        /\ (redis_pool = 0 /\ \E f \in BOOLEAN : get_redis(t, f)) =>
                \/ get_redis(t, TRUE)
                \/ constructed' = constructed + 1 /\ redis_pool' = constructed'
      ]_vars

\* One get_redis has raised the construction failure; a later one has
\* constructed the first connection.
C12_Witness ==
    /\ NoReleaseYet
    /\ \E t1, t2 \in Tasks :
        /\ op[t1] = "get_redis" /\ raised[t1] = "ValueError" /\ r[t1] = 0
        /\ op[t2] = "get_redis" /\ raised[t2] = NoFault /\ r[t2] = 1
    /\ redis_pool = 1 /\ constructed = 1

(***************************************************************************)
(* Properties of the notifications.                                        *)
(***************************************************************************)
\* What a step delivers to subscriber s: the messages appended to its inbox.
Delivered(s) == SubSeq(inbox'[s], Len(inbox[s]) + 1, Len(inbox'[s]))

\* A step that only appends to the inboxes.
InboxesGrow ==
    \A s \in Subscribers :
        /\ Len(inbox'[s]) >= Len(inbox[s])
        /\ SubSeq(inbox'[s], 1, Len(inbox[s])) = inbox[s]

\* C13: a notify_product_change(id, action) that reaches the server delivers
\* one message, the JSON text of {"product_id": id, "action": action} on
\* channel:products, to every subscriber of channel:products at that moment
\* and nothing to the others; a message is delivered only in the step that
\* publishes it and only to subscribers of its channel at that step, so one
\* who subscribes later never receives it.
C13_ProductNotification ==
    [][/\ InboxesGrow
       /\ \A s \in Subscribers :
            /\ Len(Delivered(s)) <= 1
            /\ Delivered(s) # <<>> =>
                    /\ Delivered(s)[1].channel \in subscribed[s]
                    /\ subscribed' = subscribed
                    /\ \E t \in Tasks : pc[t] = "idle" /\ op'[t] \in
                        {"publish", "notify_product_change", "notify_order_change",
                         "notify_sync_available"}
       /\ \A t \in Tasks :
            (notify_product_change(t, PyStr(S_p1), PyStr(S_updated), FALSE) /\ reachable) =>
                \A s \in Subscribers :
                    IF CHANNEL_PRODUCTS \in subscribed[s]
                    THEN /\ Len(Delivered(s)) = 1
                         /\ Delivered(s)[1].channel = CHANNEL_PRODUCTS
                         /\ Loads(Delivered(s)[1].data) =
                                PyDict(<<<<PyStr(<<"p","r","o","d","u","c","t","_","i","d">>),
                                           PyStr(S_p1)>>,
                                         <<PyStr(<<"a","c","t","i","o","n">>),
                                           PyStr(S_updated)>>>>)
                    ELSE Delivered(s) = <<>>
      ]_vars

\* s1 has received the product notification; s2 subscribed to channel:products
\* after it was published and has received nothing.
C13_Witness ==
    /\ op[Caller] = "notify_product_change" /\ logged[Caller] = NoFault
    /\ Len(inbox["s1"]) = 1 /\ inbox["s1"][1].channel = CHANNEL_PRODUCTS
    /\ Loads(inbox["s1"][1].data) =
            PyDict(<<Member(S_product_id, PyStr(S_p1)), Member(S_action, PyStr(S_updated))>>)
    /\ CHANNEL_PRODUCTS \in subscribed["s2"] /\ inbox["s2"] = <<>>

\* The step delivers the one message `message` on `channel` to the subscribers
\* of that channel, and nothing to anyone else.
DeliversOnly(channel, message) ==
    \A s \in Subscribers :
        IF channel \in subscribed[s]
        THEN /\ Len(Delivered(s)) = 1
             /\ Delivered(s)[1].channel = channel
             /\ Loads(Delivered(s)[1].data) = message
        ELSE Delivered(s) = <<>>

\* C14: a notify_order_change(order_id, action, user_id) that reaches the
\* server publishes {"order_id", "action", "user_id"} on channel:orders, with
\* user_id null when the caller left it out, and a notify_sync_available(tables)
\* publishes {"tables": tables, "action": "sync_available"} on channel:sync;
\* subscribers of other channels receive nothing from either.
C14_OrderAndSyncNotification ==
    [][\A t \in Tasks :
        /\ \A user_id \in UserIds :
            (/\ notify_order_change(t, PyStr(<<"1">>), PyStr(S_updated), user_id, FALSE)
             /\ reachable) =>
                DeliversOnly(CHANNEL_ORDERS,
                    PyDict(<<<<PyStr(<<"o","r","d","e","r","_","i","d">>), PyStr(<<"1">>)>>,
                             <<PyStr(<<"a","c","t","i","o","n">>), PyStr(S_updated)>>,
                             <<PyStr(<<"u","s","e","r","_","i","d">>), user_id>>>>))
        /\ \A tables \in TableLists :
            (notify_sync_available(t, tables, FALSE) /\ reachable) =>
                DeliversOnly(CHANNEL_SYNC,
                    PyDict(<<<<PyStr(<<"t","a","b","l","e","s">>), tables>>,
                             <<PyStr(<<"a","c","t","i","o","n">>),
                               PyStr(<<"s","y","n","c","_","a","v","a","i","l","a","b","l","e">>)>>>>))
      ]_vars

\* s1, subscribed to all three channels, has received one message, the order
\* notification with user_id null, on channel:orders; s2, subscribed to
\* channel:products, has received nothing.
C14_Witness ==
    /\ op[Caller] = "notify_order_change" /\ logged[Caller] = NoFault
    /\ subscribed["s1"] = Channels
    /\ Len(inbox["s1"]) = 1 /\ inbox["s1"][1].channel = CHANNEL_ORDERS
    /\ Loads(inbox["s1"][1].data) =
            PyDict(<<Member(S_order_id, PyStr(<<"1">>)), Member(S_action, PyStr(S_updated)),
                     Member(S_user_id, PyNone)>>)
    /\ CHANNEL_PRODUCTS \in subscribed["s2"] /\ inbox["s2"] = <<>>

\* A step in which task t calls publish, itself or through a notify helper.
PublishCall(t) ==
    \E f \in BOOLEAN :
        \/ notify_product_change(t, PyStr(S_p1), PyStr(S_updated), f)
        \/ \E user_id \in UserIds :
                notify_order_change(t, PyStr(<<"1">>), PyStr(S_updated), user_id, f)
        \/ \E tables \in TableLists : notify_sync_available(t, tables, f)
        \/ \E message \in Messages : Publish(t, "publish", CHANNEL_SYNC, message, f)

\* C15: a call of publish returns to its caller in the step of its one
\* PUBLISH, with None and no exception, whether the attempt succeeded or not;
\* it delivers at most one message to a subscriber, none when the attempt
\* failed, and no later step delivers a message on its behalf.
C15_PublishOnceNoRetry ==
    [][/\ \A t \in Tasks :
            PublishCall(t) =>
                /\ pc'[t] = "idle" /\ raised'[t] = NoFault /\ ret'[t] = PyNone
                /\ InboxesGrow
                /\ \A s \in Subscribers : Len(Delivered(s)) <= 1
                /\ ~reachable => logged'[t] = "ConnectionError" \/ logged'[t] = "TypeError"
                                 \/ logged'[t] = "ValueError"
                /\ logged'[t] # NoFault => inbox' = inbox
       /\ (\A t \in Tasks : ~PublishCall(t)) => inbox' = inbox
      ]_vars

\* notify_sync_available failed during an outage and returned normally; the
\* server answers again and the subscriber of channel:sync has received nothing.
C15_Witness ==
    /\ op[Caller] = "notify_sync_available" /\ pc[Caller] = "idle"
    /\ logged[Caller] = "ConnectionError" /\ raised[Caller] = NoFault
    /\ ret[Caller] = PyNone
    /\ reachable
    /\ CHANNEL_SYNC \in subscribed["s1"] /\ inbox["s1"] = <<>>

(***************************************************************************)
(* Properties of the domain helpers.                                       *)
(***************************************************************************)
Domains == {"products", "categories", "car_brands", "car_models", "product_brands"}

\* The prefix of a domain group, and the text "all".
GroupPrefix(D) ==
    CASE D = "products" -> <<"p","r","o","d","u","c","t","s",":">>
      [] D = "categories" -> <<"c","a","t","e","g","o","r","i","e","s",":">>
      [] D = "car_brands" -> <<"c","a","r","_","b","r","a","n","d","s",":">>
      [] D = "car_models" -> <<"c","a","r","_","m","o","d","e","l","s",":">>
      [] D = "product_brands" ->
            <<"p","r","o","d","u","c","t","_","b","r","a","n","d","s",":">>

AllOf(D) == GroupPrefix(D) \o <<"a","l","l">>

\* The step in which task t calls the list setter, or the list getter, of D.
SetAll(D, t, list, ttl) ==
    \E f \in BOOLEAN :
        CASE D = "products" -> set_all_products(t, list, ttl, f)
          [] D = "categories" -> set_categories_tree(t, list, ttl, f)
          [] D = "car_brands" -> set_all_car_brands(t, list, ttl, f)
          [] D = "car_models" -> set_all_car_models(t, list, ttl, f)
          [] D = "product_brands" -> set_all_product_brands(t, list, ttl, f)

GetAll(D, t) ==
    \E f \in BOOLEAN :
        CASE D = "products" -> get_all_products(t, f)
          [] D = "categories" -> get_categories_tree(t, f)
          [] D = "car_brands" -> get_all_car_brands(t, f)
          [] D = "car_models" -> get_all_car_models(t, f)
          [] D = "product_brands" -> get_all_product_brands(t, f)

\* The step stores `list` under `key` with `seconds` to live, touches no other
\* key, and logs no failure.
Stores(t, key, list, seconds) ==
    /\ logged'[t] = NoFault /\ raised'[t] = NoFault
    /\ Entry(store', key).present
    /\ Loads(Entry(store', key).data) = list
    /\ Entry(store', key).ttl = seconds
    /\ \A k \in AllKeys \ {key} : Entry(store', k) = Entry(store, k)

\* The step returns what `key` holds, None when it holds nothing.
Reads(t, key) ==
    /\ logged'[t] = NoFault /\ raised'[t] = NoFault
    /\ ret'[t] = IF Entry(store, key).present
                 THEN Loads(Entry(store, key).data) ELSE PyNone
    /\ store' = store

\* A step of the caller's that reaches the server.
Served(t) == reachable /\ logged'[t] = NoFault

\* C16 as claimed: the list helpers of every one of the five domains, the
\* categories included, write and read the key D:all.
C16_Claimed ==
    [][\A t \in Tasks, D \in Domains, list \in BrandLists :
        /\ (SetAll(D, t, list, PyNone) /\ Served(t)) => Stores(t, AllOf(D), list, 3600)
        /\ (GetAll(D, t) /\ Served(t)) => Reads(t, AllOf(D))
      ]_vars

\* The key the list helpers of a domain use.
ListKey(D) ==
    IF D = "categories"
    THEN GroupPrefix(D) \o <<"t","r","e","e">>
    ELSE AllOf(D)

\* C16, amended: the list helpers of products, car_brands, car_models and
\* product_brands write and read D:all, those of categories (the two
\* categories_tree helpers) write and read categories:tree; each setter stores
\* with 3600 seconds when it is given no ttl, and with 60 when it is given 60.
C16_ListHelpers ==
    [][\A t \in Tasks, D \in Domains, list \in BrandLists :
        /\ (SetAll(D, t, list, PyNone) /\ Served(t)) => Stores(t, ListKey(D), list, 3600)
        /\ (SetAll(D, t, list, PyInt(60)) /\ Served(t)) => Stores(t, ListKey(D), list, 60)
        /\ (GetAll(D, t) /\ Served(t)) => Reads(t, ListKey(D))
      ]_vars

\* All five lists are cached, each under its key with 3600 seconds, nothing
\* is under categories:all, and get_categories_tree has returned the tree.
C16_Witness ==
    /\ \A D \in Domains :
            Entry(store, ListKey(D)).present /\ Entry(store, ListKey(D)).ttl = 3600
    /\ ~Entry(store, AllOf("categories")).present
    /\ op[Caller] = "get_categories_tree" /\ ret[Caller] = Brands
    /\ logged[Caller] = NoFault

\* C17: a set_all_car_brands(list) that reaches the server stores the list
\* under car_brands:all with 3600 seconds to live, and a get_all_car_brands
\* that reaches the server while that entry is as it was stored returns the
\* list of the last set_all_car_brands, element by element in the same order.
C17_CarBrandsRoundTrip ==
    [][\A t \in Tasks :
        LET key == <<"c","a","r","_","b","r","a","n","d","s",":","a","l","l">> IN
        /\ \A list \in BrandLists :
            ((\E f \in BOOLEAN : set_all_car_brands(t, list, PyNone, f)) /\ Served(t)) =>
                /\ Entry(store', key).present /\ Entry(store', key).ttl = 3600
                /\ Entry(lastSet', key).value = list
        /\ ((\E f \in BOOLEAN : get_all_car_brands(t, f)) /\ Served(t)
            /\ Entry(lastSet, key).intact) =>
                /\ ret'[t] = Entry(lastSet, key).value
                /\ \A i \in 1..Len(ret'[t][2]) :
                        ret'[t][2][i] = Entry(lastSet, key).value[2][i]
      ]_vars

\* After set_all_car_brands(["b", "a"]), get_all_car_brands has returned
\* ["b", "a"]; the entry is under car_brands:all with 3600 seconds.
C17_Witness ==
    /\ op[Caller] = "get_all_car_brands" /\ logged[Caller] = NoFault
    /\ ret[Caller] = PyList(<<PyStr(S_b), PyStr(S_a)>>)
    /\ Entry(lastSet, K_car_brands_all).value = PyList(<<PyStr(S_b), PyStr(S_a)>>)
    /\ Entry(lastSet, K_car_brands_all).given = PyInt(LONG_TTL)
    /\ Entry(store, K_car_brands_all).ttl = LONG_TTL

\* The key of the sync timestamp of a table.
TimestampKey(table) ==
    <<"s","y","n","c",":","t","i","m","e","s","t","a","m","p",":">> \o table

\* C18: a set_last_sync_timestamp(table, ts) that reaches the server stores
\* ts under sync:timestamp:{table} with 3600 seconds to live and leaves the
\* timestamp of every other table as it was; a get_last_sync_timestamp(table)
\* that reaches the server returns the integer last stored for that table and
\* not expired since, 0 included, and None when there is none.
C18_SyncTimestamps ==
    [][\A t \in Tasks, table \in TableNames :
        /\ \A ts \in Timestamps :
            ((\E f \in BOOLEAN : set_last_sync_timestamp(t, table, ts, f)) /\ Served(t)) =>
                /\ Stores(t, TimestampKey(table), ts, 3600)
                /\ Entry(lastSet', TimestampKey(table)).value = ts
        /\ ((\E f \in BOOLEAN : get_last_sync_timestamp(t, table, f)) /\ Served(t)) =>
                /\ ret'[t] = IF Entry(lastSet, TimestampKey(table)).intact
                             THEN Entry(lastSet, TimestampKey(table)).value
                             ELSE PyNone
                /\ store' = store
      ]_vars

\* The timestamp 0 of orders and the timestamp 17 of users are both stored;
\* get_last_sync_timestamp("orders") has returned 0.
C18_Witness ==
    /\ op[Caller] = "get_last_sync_timestamp" /\ logged[Caller] = NoFault
    /\ ret[Caller] = PyInt(0)
    /\ Entry(lastSet, K_sync_timestamp(<<"o","r","d","e","r","s">>)).value = PyInt(0)
    /\ Entry(lastSet, K_sync_timestamp(<<"o","r","d","e","r","s">>)).intact
    /\ Entry(lastSet, K_sync_timestamp(<<"u","s","e","r","s">>)).value = PyInt(17)
    /\ Entry(lastSet, K_sync_timestamp(<<"u","s","e","r","s">>)).intact
    /\ Entry(store, K_sync_timestamp(<<"u","s","e","r","s">>)).ttl = LONG_TTL

(***************************************************************************)
(* Properties of set and delete.                                           *)
(***************************************************************************)
\* C19 as claimed: a set(key, value, ttl) that succeeds returns True and
\* leaves under key the text of value with ttl seconds to live, whatever the
\* entry held before, 300 seconds when ttl is omitted.
C19_Claimed ==
    [][\A t \in Tasks, k \in AllKeys, ttl \in StoreTtls :
        ((\E f \in BOOLEAN : Set(t, "set", k, PyList(<<PyInt(1)>>), ttl, f))
         /\ Served(t)) =>
            /\ ret'[t] = PyBool(TRUE)
            /\ Entry(store', k).present
            /\ Loads(Entry(store', k).data) = PyList(<<PyInt(1)>>)
            /\ Entry(store', k).ttl = IF ttl = PyNone THEN 300 ELSE ttl[2]
      ]_vars

\* C20: a delete(key) that reaches the server returns True, leaves key absent
\* and every other key as it was; when key was absent already the key space
\* is unchanged, so a second delete of the same key changes nothing.
C20_DeleteOneKey ==
    [][\A t \in Tasks, k \in PatternKeys :
        ((\E f \in BOOLEAN : Delete(t, k, f)) /\ Served(t)) =>
            /\ ret'[t] = PyBool(TRUE) /\ raised'[t] = NoFault
            /\ ~Entry(store', k).present
            /\ \A other \in AllKeys \ {k} : Entry(store', other) = Entry(store, other)
            /\ ~Entry(store, k).present => store' = store
      ]_vars

\* A delete has returned True; products:all, which the scan of a
\* delete_pattern still under way found, is absent, and products:1 and
\* product_brands:all are still stored.
C20_Witness ==
    /\ \E t \in Writers :
            op[t] = "delete" /\ ret[t] = PyBool(TRUE) /\ logged[t] = NoFault
    /\ pc[Caller] = "del"
    /\ \E i \in 1..Len(keys[Caller]) : keys[Caller][i] = K_products_all
    /\ ~Entry(store, K_products_all).present
    /\ Entry(store, K_product(<<"1">>)).present
    /\ Entry(store, K_product_brands_all).present

(***************************************************************************)
(* Properties of get_redis and close_redis running in concurrent tasks.    *)
(***************************************************************************)
\* C21 as claimed: every connection constructed so far is the one redis_pool
\* holds or one whose close() has completed.
C21_Claimed ==
    \A c \in 1..constructed : c = redis_pool \/ c \in closedConns

\* C22 as claimed: close() is called at most once on a connection.
C22_Claimed ==
    \A c \in 1..MaxConns : closeCalls[c] <= 1

\* C23 as claimed: get_redis gives no task a connection on which a
\* close_redis has called close().
C23_Claimed ==
    [][\A t \in Tasks :
        (\E f \in BOOLEAN : get_redis(t, f)) =>
            r'[t] = 0 \/ closeCalls[r'[t]] = 0
      ]_vars

\* C24: a close_redis whose close() raises ends with that exception raised
\* to its caller and leaves redis_pool, and the set of closed connections, as
\* they were; redis_pool goes from a connection to None only in the step in
\* which a close() returns; and as long as redis_pool holds a connection,
\* get_redis returns it.
C24_CloseFailureKeepsReference ==
    [][/\ \A t \in Tasks :
            /\ CloseEnd(t, TRUE) =>
                    /\ raised'[t] = "ConnectionError" /\ pc'[t] = "idle"
                    /\ UNCHANGED <<redis_pool, constructed, closedConns>>
            /\ (get_redis(t, FALSE) /\ redis_pool # 0) => r'[t] = redis_pool
       /\ (redis_pool # 0 /\ redis_pool' = 0) =>
            \E t \in Tasks : CloseEnd(t, FALSE) /\ r[t] \in closedConns'
      ]_vars

\* close() was called once on the only connection and did not complete; the
\* connection is still the shared one, and every task, the one whose
\* close_redis failed included, has acquired it since.
C24_Witness ==
    /\ constructed = 1 /\ redis_pool = 1
    /\ closeCalls[1] = 1 /\ closedConns = {}
    /\ \A t \in Tasks :
            pc[t] = "idle" /\ op[t] = "get_redis" /\ r[t] = 1 /\ raised[t] = NoFault

\* C25: once every read-through and every write has completed, the cache holds
\* no product list or the product list of the primary store.
C25_Claimed ==
    Quiescent =>
        LET cached == Entry(store, K_products_all) IN
        ~cached.present \/ Loads(cached.data) = primary

\* C26: the DEL of delete_pattern(p) removes no key but keys that its scan
\* enumerated and that match p, and the number it returns is the number of
\* enumerated keys the server still holds when it executes the DEL, which is
\* at most the number of keys enumerated; the steps of delete_pattern before
\* the DEL, and a DEL that fails, remove nothing.
C26_OnlyEnumeratedAndPresent ==
    [][\A t \in Tasks :
        LET enumerated == {keys[t][i] : i \in 1..Len(keys[t])}
            gone == {k \in AllKeys : Entry(store, k).present /\ ~Entry(store', k).present}
            held == {k \in enumerated : Entry(store, k).present}
        IN /\ (DelStep(t) /\ reachable) =>
                /\ gone \subseteq {k \in enumerated : GlobMatch(pattern[t], k)}
                /\ gone = held
                /\ ret'[t] = PyInt(Cardinality(held))
                /\ Cardinality(held) <= Len(keys[t])
           /\ (DelStep(t) /\ ~reachable) => gone = {} /\ ret'[t] = PyInt(0)
           /\ ScanStep(t, Len(ScanOrder) \div 2) =>
                /\ gone = {}
                /\ \A i \in 1..Len(keys'[t]) : GlobMatch(pattern[t], keys'[t][i])
      ]_vars

\* delete_pattern("products:*") enumerated two keys and returned 0 without a
\* fault: both had expired or been deleted before its DEL, while a key outside
\* the pattern is still held.
C26_Witness ==
    /\ op[Caller] = "delete_pattern" /\ pc[Caller] = "idle"
    /\ pattern[Caller] = PrefixPattern(PREFIX_PRODUCTS)
    /\ logged[Caller] = NoFault /\ raised[Caller] = NoFault
    /\ Len(keys[Caller]) = 2 /\ ret[Caller] = PyInt(0)
    /\ Entry(store, K_product_brands_all).present

\* C27: a step of get, set, delete, delete_pattern or publish taken while
\* redis_pool holds a connection leaves redis_pool, and the connections made
\* and closed, as they are, whether the entry point succeeds or logs a fault;
\* taken while redis_pool is None it changes redis_pool only by the
\* construction of its get_redis.  redis_pool changes in no other step than a
\* construction (from None to the new connection) and the completion of a
\* close_redis (to None).
C27_UsageKeepsReference ==
    [][/\ \A t \in Tasks :
            UsageStep(t) =>
                IF redis_pool # 0
                THEN /\ UNCHANGED connVars
                     /\ r'[t] \in {r[t], redis_pool}
                ELSE /\ UNCHANGED <<closeCalls, closedConns>>
                     /\ \/ UNCHANGED <<redis_pool, constructed>>
                        \/ /\ constructed' = constructed + 1
                           /\ redis_pool' = constructed'
                           /\ r'[t] = redis_pool'
       /\ redis_pool' # redis_pool =>
            IF redis_pool = 0
            THEN constructed' = constructed + 1 /\ redis_pool' = constructed'
            ELSE redis_pool' = 0 /\ \E t \in Tasks : CloseEnd(t, FALSE)
      ]_vars

\* publish has logged the TypeError of json.dumps, and redis_pool still holds
\* the connection it held: the only one constructed, with no close() called.
C27_Witness ==
    /\ op[Caller] = "publish" /\ logged[Caller] = "TypeError"
    /\ redis_pool = 1 /\ constructed = 1 /\ r[Caller] = 1
    /\ closeCalls[1] = 0

====
